---- MODULE Spec2Model ----
(***************************************************************************)
(* irohscii: the automerge-backed Document (src/src/document.rs) and the   *)
(* peer-to-peer sync engine (src/src/sync/protocol.rs, src/src/sync/mod.rs)*)
(* as a state machine.                                                     *)
(*                                                                         *)
(* The automerge library is the environment of the program.  It is         *)
(* modelled as an operation-based CRDT: a document is a set of changes, a  *)
(* change is a set of operations with the changes it depends on, and every *)
(* read (map get, map keys, list contents) is computed from the operation  *)
(* set: a map key shows the visible operation with the greatest operation  *)
(* id, a list is an RGA tree flattened with siblings in descending id      *)
(* order, a delete supersedes the operations it has seen.                  *)
(***************************************************************************)
EXTENDS Integers, Sequences, FiniteSets, TLC

\* The two replicas (processes); replica p commits with actor id p.
Procs == {1, 2}

\* Actor of a document both replicas loaded from the same file.
BaseActor == 0

(***************************************************************************)
(* Operations.  An operation is the tuple                                  *)
(*   <<id, obj, key, act, val, pred>>                                      *)
(* id = <<counter, actor>>; obj the object it acts on; key the map key, or *)
(* for a list the element it is inserted after / the element it deletes;   *)
(* act one of "make" (put_object), "put", "del", "ins"; pred the set of    *)
(* operation ids it supersedes.                                            *)
(***************************************************************************)
ROOT == <<0, 0>>

HEAD == <<0, 0>>

OpId(o) == o[1]

OpObj(o) == o[2]

OpKey(o) == o[3]

OpAct(o) == o[4]

OpVal(o) == o[5]

OpPred(o) == o[6]

\* Lamport order on operation ids: counter first, then actor.
IdLess(a, b) == a[1] < b[1] \/ (a[1] = b[1] /\ a[2] < b[2])

\* Bind(v, F) is F(v) with v evaluated once: LET x == v IN F(x).
Bind(v, F(_)) == CHOOSE r \in {F(x) : x \in {v}} : TRUE

\* All operations of the document d (a set of change ids) under store st.
OpsOf(st, d) == UNION {st[c].ops : c \in d}

\* Ids superseded by some operation of the set.
Preds(ops) == UNION {OpPred(o) : o \in ops}

MaxCtr(ops) ==
    IF ops = {} THEN 0
    ELSE Bind({OpId(o)[1] : o \in ops},
              LAMBDA c : CHOOSE m \in c : \A n \in c : n <= m)

\* Visible values of a map key: make/put operations not superseded.
Visible(ops, obj, key) ==
    Bind(Preds(ops), LAMBDA pr :
        {o \in ops : /\ OpObj(o) = obj
                     /\ OpAct(o) \in {"make", "put"}
                     /\ OpKey(o) = key
                     /\ OpId(o) \notin pr})

MaxOp(S) == CHOOSE x \in S : \A y \in S : x = y \/ IdLess(OpId(y), OpId(x))

\* doc.get(obj, key): <<>> for None, <<op>> for the winning operation.
MapGet(ops, obj, key) ==
    Bind(Visible(ops, obj, key),
         LAMBDA v : IF v = {} THEN <<>> ELSE <<MaxOp(v)>>)

\* doc.keys(obj): the keys with a visible value.
MapKeys(ops, obj) ==
    Bind(Preds(ops), LAMBDA pr :
        {OpKey(o) : o \in {x \in ops : /\ OpObj(x) = obj
                                       /\ OpAct(x) \in {"make", "put"}
                                       /\ OpId(x) \notin pr}})

RECURSIVE SortDesc(_)
SortDesc(S) ==
    IF S = {} THEN <<>>
    ELSE Bind(MaxOp(S), LAMBDA m : <<m>> \o SortDesc(S \ {m}))

\* A list is a tree: each element is inserted after a reference element
\* (HEAD at index 0) and precedes the elements inserted there before it.
\* Taking the elements in increasing id order, each one therefore goes
\* right behind its reference element.
RgaInsert(seq, e) ==
    IF OpKey(e) = HEAD THEN <<e>> \o seq
    ELSE Bind(CHOOSE i \in 1..Len(seq) : OpId(seq[i]) = OpKey(e), LAMBDA i :
             SubSeq(seq, 1, i) \o <<e>> \o SubSeq(seq, i + 1, Len(seq)))

\* Insert the elements of a sequence in decreasing id order, last first.
RECURSIVE RgaSeq(_, _)
RgaSeq(acc, kids) ==
    IF kids = <<>> THEN acc
    ELSE Bind(Tail(kids), LAMBDA rest :
         Bind(RgaSeq(acc, rest), LAMBDA a : RgaInsert(a, Head(kids))))

\* Insert the elements of S, whose counters lie in lo..hi, in id order.
RECURSIVE RgaFold(_, _, _, _)
RgaFold(acc, S, lo, hi) ==
    IF S = {} THEN acc
    ELSE IF lo = hi THEN RgaSeq(acc, SortDesc(S))
    ELSE Bind((lo + hi) \div 2, LAMBDA mid :
         Bind(RgaFold(acc, {o \in S : OpId(o)[1] <= mid}, lo, mid),
              LAMBDA a : RgaFold(a, {o \in S : OpId(o)[1] > mid},
                                 mid + 1, hi)))

\* The elements E of a list (visible or deleted) in document order.
Rga(E) == RgaFold(<<>>, E, 0, MaxCtr(E))

\* The visible elements of a list object, in document order (as operations).
ListElems(ops, list) ==
    Bind({o \in ops : OpObj(o) = list /\ OpAct(o) = "ins"}, LAMBDA E :
    Bind(Preds(ops), LAMBDA pr :
        SelectSeq(Rga(E), LAMBDA o : OpId(o) \notin pr)))

\* The values of a list object.
ListVals(ops, list) ==
    Bind(ListElems(ops, list),
         LAMBDA e : [i \in 1..Len(e) |-> OpVal(e[i])])

(***************************************************************************)
(* Transactions.  A transaction reads the document's operations together   *)
(* with its own, and numbers its operations from the document's greatest   *)
(* counter.  Committing a transaction without operations makes no change.  *)
(***************************************************************************)
TxBegin(st, d, a) ==
    Bind(OpsOf(st, d), LAMBDA ops :
        [ops |-> ops, new |-> {}, ctr |-> MaxCtr(ops) + 1, actor |-> a])

TxAdd(tx, o) ==
    [ops |-> tx.ops \cup {o}, new |-> tx.new \cup {o}, ctr |-> tx.ctr + 1,
     actor |-> tx.actor]

TxNextId(tx) == <<tx.ctr, tx.actor>>

VisibleIds(ops, obj, key) == {OpId(o) : o \in Visible(ops, obj, key)}

TxPut(tx, obj, key, val) ==
    TxAdd(tx, <<TxNextId(tx), obj, key, "put", val,
                VisibleIds(tx.ops, obj, key)>>)

\* put_object: the new object's id is the id of the operation.
TxPutObject(tx, obj, key, val) ==
    TxAdd(tx, <<TxNextId(tx), obj, key, "make", val,
                VisibleIds(tx.ops, obj, key)>>)

\* delete of a map key; deleting a key with no value is no operation.
TxDelete(tx, obj, key) ==
    Bind(VisibleIds(tx.ops, obj, key), LAMBDA v :
        IF v = {} THEN tx
        ELSE TxAdd(tx, <<TxNextId(tx), obj, key, "del", <<>>, v>>))

\* insert at 0-based index: after the visible element index-1 (HEAD at 0).
TxInsert(tx, list, index, val) ==
    Bind(IF index = 0 THEN HEAD
         ELSE OpId(ListElems(tx.ops, list)[index]), LAMBDA ref :
        TxAdd(tx, <<TxNextId(tx), list, ref, "ins", val, {}>>))

\* delete of the visible list element at 0-based index.
TxListDelete(tx, list, index) ==
    Bind(OpId(ListElems(tx.ops, list)[index + 1]), LAMBDA e :
        TxAdd(tx, <<TxNextId(tx), list, e, "del", <<>>, {e}>>))

\* tx.length(list)
TxLength(tx, list) == Len(ListElems(tx.ops, list))

\* Result of committing: the store and the document's change set.
TxCommit(st, d, tx) ==
    IF tx.new = {} THEN [store |-> st, am |-> d]
    ELSE Bind(<<tx.actor, Cardinality({c \in d : c[1] = tx.actor}) + 1>>,
              LAMBDA cid :
                 [store |-> (cid :> [deps |-> d, ops |-> tx.new]) @@ st,
                  am |-> d \cup {cid}])

\* Automerge::merge: the union of the two change sets.
AmMerge(d, other) == d \cup other

(***************************************************************************)
(* The automerge sync protocol, as run_bidirectional_sync drives it.  A    *)
(* change is named by its id (its hash); a change's deps hold all of its   *)
(* ancestors.  A Have is <<last_sync, bloom>>, the Bloom filter being the  *)
(* exact set of hashes put into it.  A sync message is                     *)
(* <<heads, have, need, changes>>.                                         *)
(***************************************************************************)
\* Automerge::get_heads
Heads(st, d) == {c \in d : \A e \in d : c \notin st[e].deps}

\* The changes of hs and all their ancestors.
Ancestors(st, hs) == UNION {st[c].deps \cup {c} : c \in hs}

\* Automerge::get_changes(have_deps): the changes that are no ancestors of
\* have_deps.
GetChanges(st, d, have_deps) == d \ Ancestors(st, have_deps \cap d)

\* SyncState::new()
SyncStateNew ==
    [shared_heads |-> {}, last_sent_heads |-> {}, their_heads |-> <<>>,
     their_need |-> <<>>, their_have |-> <<>>, sent_hashes |-> {},
     in_flight |-> FALSE, have_responded |-> FALSE]

MakeBloomFilter(st, d, last_sync) == <<last_sync, GetChanges(st, d, last_sync)>>

\* get_changes_to_send(have, need)
GetChangesToSend(st, d, have, need) ==
    IF have = <<>> THEN need \cap d
    ELSE Bind(UNION {have[i][1] : i \in 1..Len(have)}, LAMBDA last_sync :
         Bind(UNION {have[i][2] : i \in 1..Len(have)}, LAMBDA bloom :
         Bind(GetChanges(st, d, last_sync), LAMBDA cand :
         Bind({c \in cand : c \notin bloom}, LAMBDA missed :
            {c \in cand : c \in missed \/ st[c].deps \cap missed /= {}}
               \cup (need \cap d)))))

\* A generator that always has a message to send.
generate_sync_message_always(st, d, S) ==
    Bind(Heads(st, d), LAMBDA our_heads :
        [msg |-> << <<our_heads, <<MakeBloomFilter(st, d, S.shared_heads)>>,
                      {}, {}>> >>,
         state |-> [S EXCEPT !.have_responded = TRUE,
                             !.last_sent_heads = our_heads,
                             !.in_flight = TRUE]])

\* Automerge::generate_sync_message(sync_state): the message, if any, and
\* the sync state afterwards.
generate_sync_message(st, d, S) ==
    Bind(Heads(st, d), LAMBDA our_heads :
    Bind(IF S.their_heads = <<>> THEN {} ELSE S.their_heads[1] \ d,
         LAMBDA our_need :
    Bind(IF S.their_heads = <<>> THEN our_need = {}
         ELSE our_need \subseteq S.their_heads[1], LAMBDA all_in_heads :
    Bind(IF all_in_heads
         THEN <<MakeBloomFilter(st, d, S.shared_heads)>> ELSE <<>>,
         LAMBDA our_have :
    IF /\ S.their_have /= <<>>
       /\ S.their_have[1] /= <<>>
       /\ ~(S.their_have[1][1][1] \subseteq d)
    THEN [msg |-> << <<our_heads, << <<{}, {}>> >>, {}, {}>> >>, state |-> S]
    ELSE
    Bind(IF S.their_have /= <<>> /\ S.their_need /= <<>>
         THEN GetChangesToSend(st, d, S.their_have[1], S.their_need[1])
         ELSE {}, LAMBDA changes_to_send :
    IF /\ S.last_sent_heads = our_heads
       /\ S.have_responded
       /\ \/ S.their_heads = <<our_heads>> /\ changes_to_send = {}
          \/ S.in_flight
    THEN [msg |-> <<>>, state |-> S]
    ELSE
    Bind(changes_to_send \ S.sent_hashes, LAMBDA changes :
        [msg |-> << <<our_heads, our_have, our_need, changes>> >>,
         state |-> [S EXCEPT !.have_responded = TRUE,
                             !.last_sent_heads = our_heads,
                             !.sent_hashes = @ \cup changes,
                             !.in_flight = TRUE]]))))))

\* Automerge::apply_changes: the changes whose dependencies are at hand.
apply_changes_replace(st, d, changes) == Ancestors(st, changes)

apply_changes(st, d, changes) ==
    d \cup {c \in changes : st[c].deps \subseteq d \cup changes}

\* advance_heads(my_old_heads, my_new_heads, our_old_shared_heads)
advance_heads(old, new, shared) == (new \ old) \cup (shared \cap new)

\* Automerge::receive_sync_message(sync_state, message): the document and
\* the sync state afterwards.
receive_sync_message(st, d, S, m) ==
    Bind(Heads(st, d), LAMBDA before_heads :
    Bind(IF m[4] = {} THEN d ELSE apply_changes(st, d, m[4]), LAMBDA doc :
    Bind(IF m[4] = {} THEN S.shared_heads
         ELSE advance_heads(before_heads, Heads(st, doc), S.shared_heads),
         LAMBDA shared :
    Bind(S.sent_hashes \ Ancestors(st, m[1] \cap doc), LAMBDA sent :
    Bind(m[1] \cap doc, LAMBDA known_heads :
    Bind(known_heads = m[1], LAMBDA all_known :
        [doc |-> doc,
         state |->
            [shared_heads |->
                 IF all_known THEN m[1] ELSE shared \cup known_heads,
             last_sent_heads |->
                 IF all_known /\ m[1] = {} THEN {}
                 ELSE IF m[4] = {} /\ m[1] = before_heads THEN m[1]
                 ELSE S.last_sent_heads,
             their_heads |-> <<m[1]>>,
             their_need |-> <<m[3]>>,
             their_have |-> <<m[2]>>,
             sent_hashes |-> IF all_known /\ m[1] = {} THEN {} ELSE sent,
             in_flight |-> IF all_known \/ sent = {} THEN FALSE
                           ELSE S.in_flight,
             have_responded |-> S.have_responded]]))))))

\* The empty frame send_all_sync_messages ends with.
Sentinel == <<>>

\* A frame whose bytes are not an encoded sync message, and a frame whose
\* length prefix is beyond what the allocator can give.
Undecodable == <<"undecodable">>

Oversized == <<"oversized">>

\* The frames that carry a sync message <<heads, have, need, changes>>.
IsMessage(f) == Len(f) = 4

\* recv_msg: the ways vec![0u8; len] can end for the length read from the
\* stream - the buffer is there, the task panics with a capacity overflow,
\* or the allocation fails and the process is aborted.
recv_msg(f) == IF f = Oversized THEN {"panic", "abort"} ELSE {"ok"}

\* automerge::sync::Message::decode
decode(f) == IF IsMessage(f) THEN "ok" ELSE "err"

\* Rounds of the loop of send_all_sync_messages that are followed.
MaxFlush == 3

RECURSIVE send_all_sync_messages_bare(_, _, _, _)
send_all_sync_messages_bare(st, d, S, fuel) ==
    Bind(generate_sync_message(st, d, S), LAMBDA r :
        IF r.msg = <<>>
        THEN [frames |-> <<>>, state |-> r.state, done |-> TRUE, doc |-> d]
        ELSE IF fuel = 0
        THEN [frames |-> r.msg, state |-> r.state, done |-> FALSE, doc |-> d]
        ELSE Bind(send_all_sync_messages_bare(st, d, r.state, fuel - 1),
                  LAMBDA rest :
                     [frames |-> r.msg \o rest.frames, state |-> rest.state,
                      done |-> rest.done, doc |-> d]))

\* IrohAutomergeProtocol::send_all_sync_messages: the frames written, the
\* sync state afterwards, and whether the loop has ended.
RECURSIVE send_all_sync_messages(_, _, _, _)
send_all_sync_messages(st, d, S, fuel) ==
    Bind(generate_sync_message(st, d, S), LAMBDA r :
        IF r.msg = <<>>
        THEN [frames |-> <<Sentinel>>, state |-> r.state, done |-> TRUE,
              doc |-> d]
        ELSE IF fuel = 0
        THEN [frames |-> r.msg, state |-> r.state, done |-> FALSE, doc |-> d]
        ELSE Bind(send_all_sync_messages(st, d, r.state, fuel - 1),
                  LAMBDA rest :
                     [frames |-> r.msg \o rest.frames, state |-> rest.state,
                      done |-> rest.done, doc |-> d]))

\* IrohAutomergeProtocol::merge_and_notify: the shared document afterwards.
merge_and_notify_skip(d, other) == d

merge_and_notify(d, other) == AmMerge(d, other)

(***************************************************************************)
(* Shape kinds and their codec.  A ShapeKind is <<variant, x, text>>: a    *)
(* Rectangle with start.x = x and label text (<<>> for None, <<s>> for     *)
(* Some(s)), or a Text at pos.x = x with content text = <<s>>.  A string   *)
(* is a sequence of characters, "q" standing for the double quote.  A Line *)
(* or Arrow is <<variant, start, end, start_connection, end_connection>>,  *)
(* a position being <<x, y>> and a connection <<>> for None, <<n>> for     *)
(* Some(n).                                                                *)
(***************************************************************************)
QUOTE == "q"

RECURSIVE TrimStart(_)
TrimStart(s) ==
    IF s /= <<>> /\ Head(s) = QUOTE THEN TrimStart(Tail(s)) ELSE s

RECURSIVE TrimEnd(_)
TrimEnd(s) ==
    IF s /= <<>> /\ s[Len(s)] = QUOTE
    THEN TrimEnd(SubSeq(s, 1, Len(s) - 1)) ELSE s

\* ScalarValue::to_string()  wraps a string in quotes; trim_matches('"')
\* then strips every leading and trailing quote character.
ScalarToString(s) == <<QUOTE>> \o s \o <<QUOTE>>

TrimMatches(s) == TrimEnd(TrimStart(s))

get_string(f, key) == TrimMatches(ScalarToString(f[key]))

get_opt_string(f, key) ==
    IF key \in DOMAIN f THEN <<TrimMatches(ScalarToString(f[key]))>>
    ELSE <<>>

\* The variants with endpoints and connections.
LineVariants == {"Line", "Arrow"}

\* The fields of a Line or Arrow: start_conn and end_conn are put only for
\* Some(conn), as conn as i64.  The style, colour and label of the line are
\* left out: no operation on connections reads or changes them.
write_line_kind(kind) ==
    IF kind[4] = <<>> /\ kind[5] = <<>>
    THEN [kind |-> kind[1], start_x |-> kind[2][1], start_y |-> kind[2][2],
          end_x |-> kind[3][1], end_y |-> kind[3][2]]
    ELSE IF kind[5] = <<>>
    THEN [kind |-> kind[1], start_x |-> kind[2][1], start_y |-> kind[2][2],
          end_x |-> kind[3][1], end_y |-> kind[3][2],
          start_conn |-> kind[4][1]]
    ELSE IF kind[4] = <<>>
    THEN [kind |-> kind[1], start_x |-> kind[2][1], start_y |-> kind[2][2],
          end_x |-> kind[3][1], end_y |-> kind[3][2],
          end_conn |-> kind[5][1]]
    ELSE [kind |-> kind[1], start_x |-> kind[2][1], start_y |-> kind[2][2],
          end_x |-> kind[3][1], end_y |-> kind[3][2],
          start_conn |-> kind[4][1], end_conn |-> kind[5][1]]

\* get_opt_u64: to_i64() as u64 of the scalar, None for a missing key.
get_opt_u64(f, key) == IF key \in DOMAIN f THEN <<f[key]>> ELSE <<>>

\* The fields write_shape_kind puts into the shape object.
write_shape_kind(kind) ==
    IF kind[1] = "Rectangle"
    THEN IF kind[3] = <<>>
         THEN [kind |-> "Rectangle", start_x |-> kind[2]]
         ELSE [kind |-> "Rectangle", start_x |-> kind[2],
               label |-> kind[3][1]]
    ELSE IF kind[1] \in LineVariants THEN write_line_kind(kind)
    ELSE [kind |-> "Text", x |-> kind[2], content |-> kind[3][1]]

\* The ShapeKind read_shape_kind builds from the fields of a shape object.
read_shape_kind(f) ==
    IF f.kind = "Rectangle"
    THEN <<"Rectangle", f.start_x, get_opt_string(f, "label")>>
    ELSE IF f.kind \in LineVariants
    THEN <<f.kind, <<f.start_x, f.start_y>>, <<f.end_x, f.end_y>>,
           get_opt_u64(f, "start_conn"), get_opt_u64(f, "end_conn")>>
    ELSE <<"Text", f.x, <<get_string(f, "content")>>>>

(***************************************************************************)
(* Document (src/src/document.rs).  A Document value is [am, dirty]: the   *)
(* automerge change set and the dirty flag.  Every operation returns       *)
(* [store, am, dirty, ret]; ret is FALSE where the code returns Err or     *)
(* false.                                                                  *)
(***************************************************************************)
Result(r, dirty, ret) ==
    Bind(r, LAMBDA x :
        [store |-> x.store, am |-> x.am, dirty |-> dirty, ret |-> ret])

\* An early return with Err(..) or Ok(false): the document is untouched.
Err(st, D) == [store |-> st, am |-> D.am, dirty |-> D.dirty, ret |-> FALSE]

\* doc.get(ROOT, name) as an object id: <<>> for None, <<id>> for Some.
RootObj(ops, name) ==
    Bind(MapGet(ops, ROOT, name),
         LAMBDA g : IF g = <<>> THEN <<>> ELSE <<OpId(g[1])>>)

\* match tx.get(ROOT, name) { Some(obj) => obj, None => tx.put_object(..) }
TxGetOrCreate(tx, name, type) ==
    Bind(RootObj(tx.ops, name), LAMBDA g :
        IF g /= <<>> THEN [tx |-> tx, obj |-> g[1]]
        ELSE [tx |-> TxPutObject(tx, ROOT, name, type),
              obj |-> TxNextId(tx)])

\* Document::new(): the initial structure, committed as one change.
DocumentNew(st, a, docId, default_layer_id) ==
    Bind(TxBegin(st, {}, a), LAMBDA t0 :
    Bind(TxPut(t0, ROOT, "id", docId), LAMBDA t1 :
    Bind(TxPutObject(t1, ROOT, "shapes", "Map"), LAMBDA t2 :
    Bind(TxPutObject(t2, ROOT, "shape_order", "List"), LAMBDA t3 :
    Bind(TxPutObject(t3, ROOT, "groups", "Map"), LAMBDA t4 :
    Bind(TxPutObject(t4, ROOT, "layers", "Map"), LAMBDA t5 :
    Bind(TxPutObject(t5, ROOT, "layer_order", "List"), LAMBDA t6 :
    Bind(TxPutObject(t6, TxNextId(t4), default_layer_id,
                     <<"Layer 1", TRUE, FALSE>>), LAMBDA t7 :
    Bind(TxInsert(t7, TxNextId(t5), 0, default_layer_id), LAMBDA t8 :
    Bind(TxPutObject(t8, ROOT, "undo_stack", "List"), LAMBDA t9 :
    Bind(TxPutObject(t9, ROOT, "redo_stack", "List"), LAMBDA t10 :
        Result(TxCommit(st, {}, t10), FALSE, TRUE))))))))))))

\* Document::merge(other)
merge(st, D, other) ==
    [store |-> st, am |-> AmMerge(D.am, other), dirty |-> TRUE, ret |-> TRUE]

\* add_shape with the fresh ShapeId id
add_shape(st, D, a, id, kind) ==
    Bind(TxBegin(st, D.am, a), LAMBDA t0 :
    Bind(TxGetOrCreate(t0, "shapes", "Map"), LAMBDA s :
    Bind(TxPutObject(s.tx, s.obj, id, write_shape_kind(kind)), LAMBDA t2 :
    Bind(TxGetOrCreate(t2, "shape_order", "List"), LAMBDA o :
    Bind(TxInsert(o.tx, o.obj, TxLength(o.tx, o.obj), id), LAMBDA t4 :
        Result(TxCommit(st, D.am, t4), TRUE, TRUE))))))

\* update_shape: delete the key and put a new object under it.
update_shape(st, D, a, id, kind) ==
    Bind(TxBegin(st, D.am, a), LAMBDA t0 :
    Bind(RootObj(t0.ops, "shapes"), LAMBDA g :
        IF g = <<>> THEN Err(st, D)
        ELSE Bind(TxDelete(t0, g[1], id), LAMBDA t1 :
             Bind(TxPutObject(t1, g[1], id, write_shape_kind(kind)),
                  LAMBDA t2 : Result(TxCommit(st, D.am, t2), TRUE, TRUE)))))

\* 0-based index of the last list element whose value is v, or -1.
LastIndexOf(vals, v) ==
    Bind({i \in 1..Len(vals) : vals[i] = v}, LAMBDA I :
        IF I = {} THEN -1 ELSE (CHOOSE i \in I : \A j \in I : j <= i) - 1)

\* if let Some(list) = tx.get(ROOT, name): delete the last entry equal to id
TxRemoveLast(tx, name, id) ==
    Bind(RootObj(tx.ops, name), LAMBDA g :
        IF g = <<>> THEN tx
        ELSE Bind(LastIndexOf(ListVals(tx.ops, g[1]), id), LAMBDA i :
                 IF i < 0 THEN tx ELSE TxListDelete(tx, g[1], i)))

\* delete_shape: delete the key, and the last matching shape_order entry.
delete_shape(st, D, a, id) ==
    Bind(TxBegin(st, D.am, a), LAMBDA t0 :
    Bind(RootObj(t0.ops, "shapes"), LAMBDA g :
        IF g = <<>> THEN Err(st, D)
        ELSE Bind(TxDelete(t0, g[1], id), LAMBDA t1 :
             Bind(TxRemoveLast(t1, "shape_order", id), LAMBDA t2 :
                 Result(TxCommit(st, D.am, t2), TRUE, TRUE)))))

\* read_all_shapes over an operation set: the (id, kind) pairs.  The code
\* returns them as a vector in key order, which the set determines.
ReadAllShapesOps(ops) ==
    Bind(RootObj(ops, "shapes"), LAMBDA g :
        IF g = <<>> THEN {}
        ELSE {<<key, read_shape_kind(OpVal(MapGet(ops, g[1], key)[1]))>> :
                 key \in MapKeys(ops, g[1])})

read_all_shapes(st, d) == Bind(OpsOf(st, d), LAMBDA ops : ReadAllShapesOps(ops))

ReadShapeOrderOps(ops) ==
    Bind(RootObj(ops, "shape_order"), LAMBDA g :
        IF g = <<>> THEN <<>> ELSE ListVals(ops, g[1]))

\* read_shape_order: the shape ids of the shape_order list.
read_shape_order(st, d) ==
    Bind(OpsOf(st, d), LAMBDA ops : ReadShapeOrderOps(ops))

(***************************************************************************)
(* Layers                                                                  *)
(***************************************************************************)
ReadLayerOrderOps(ops) ==
    Bind(RootObj(ops, "layer_order"), LAMBDA g :
        IF g = <<>> THEN <<>> ELSE ListVals(ops, g[1]))

read_layer_order(st, d) ==
    Bind(OpsOf(st, d), LAMBDA ops : ReadLayerOrderOps(ops))

\* read_all_layers: the ids of layer_order whose layer object can be read.
read_all_layers(st, d) ==
    Bind(OpsOf(st, d), LAMBDA ops :
    Bind(RootObj(ops, "layers"), LAMBDA g :
        IF g = <<>> THEN <<>>
        ELSE SelectSeq(ReadLayerOrderOps(ops),
                       LAMBDA l : MapGet(ops, g[1], l) /= <<>>)))

\* The keys of the layers map.
LayerKeys(st, d) ==
    Bind(OpsOf(st, d), LAMBDA ops :
    Bind(RootObj(ops, "layers"), LAMBDA g :
        IF g = <<>> THEN {} ELSE MapKeys(ops, g[1])))

\* create_layer with the fresh LayerId id
create_layer(st, D, a, id, name) ==
    Bind(TxBegin(st, D.am, a), LAMBDA t0 :
    Bind(TxGetOrCreate(t0, "layers", "Map"), LAMBDA l :
    Bind(TxPutObject(l.tx, l.obj, id, <<name, TRUE, FALSE>>), LAMBDA t2 :
    Bind(TxGetOrCreate(t2, "layer_order", "List"), LAMBDA o :
    Bind(TxInsert(o.tx, o.obj, TxLength(o.tx, o.obj), id), LAMBDA t4 :
        Result(TxCommit(st, D.am, t4), TRUE, TRUE))))))

\* get_shape_layer: <<>> for None, <<layer>> for Some(layer).
GetShapeLayerOps(ops, id) ==
    Bind(RootObj(ops, "shapes"), LAMBDA g :
        IF g = <<>> THEN <<>>
        ELSE Bind(MapGet(ops, g[1], id), LAMBDA sh :
                 IF sh = <<>> THEN <<>>
                 ELSE Bind(MapGet(ops, OpId(sh[1]), "layer_id"), LAMBDA l :
                          IF l = <<>> THEN <<>> ELSE <<OpVal(l[1])>>)))

get_shape_layer(st, d, id) ==
    Bind(OpsOf(st, d), LAMBDA ops : GetShapeLayerOps(ops, id))

\* set_shape_layer: no check that layer_id names a layer.
set_shape_layer(st, D, a, id, layer_id) ==
    Bind(TxBegin(st, D.am, a), LAMBDA t0 :
    Bind(RootObj(t0.ops, "shapes"), LAMBDA g :
        IF g = <<>> THEN Err(st, D)
        ELSE Bind(MapGet(t0.ops, g[1], id), LAMBDA sh :
             Bind(IF sh = <<>> THEN t0
                  ELSE TxPut(t0, OpId(sh[1]), "layer_id", layer_id),
                  LAMBDA t1 : Result(TxCommit(st, D.am, t1), TRUE, TRUE)))))

\* A finite set of integers as an ascending sequence (key order).
RECURSIVE SortAsc(_)
SortAsc(S) ==
    IF S = {} THEN <<>>
    ELSE Bind(CHOOSE x \in S : \A y \in S : x <= y,
              LAMBDA m : <<m>> \o SortAsc(S \ {m}))

\* delete_layer's loop: every shape on layer id goes to default_layer,
\* each by its own set_shape_layer call.  r is the Document so far.
RECURSIVE MoveShapesOffLayer(_, _, _, _, _)
MoveShapesOffLayer(r, a, shapes, id, default_layer) ==
    IF shapes = <<>> THEN r
    ELSE Bind(IF get_shape_layer(r.store, r.am, Head(shapes)) = <<id>>
              THEN set_shape_layer(r.store, r, a, Head(shapes), default_layer)
              ELSE r, LAMBDA r2 :
         Bind(Tail(shapes), LAMBDA rest :
              MoveShapesOffLayer(r2, a, rest, id, default_layer)))

\* delete_layer
delete_layer(st, D, a, id) ==
    Bind(read_layer_order(st, D.am), LAMBDA layer_order :
    Bind(SelectSeq(layer_order, LAMBDA l : l /= id), LAMBDA others :
        IF Len(layer_order) <= 1 THEN Err(st, D)
        ELSE IF others = <<>> THEN Err(st, D)
        ELSE
        Bind(SortAsc({s[1] : s \in read_all_shapes(st, D.am)}),
             LAMBDA all_shapes :
        Bind(MoveShapesOffLayer(
                 [store |-> st, am |-> D.am, dirty |-> D.dirty, ret |-> TRUE],
                 a, all_shapes, id, others[1]), LAMBDA m :
        Bind(TxBegin(m.store, m.am, a), LAMBDA t0 :
        Bind(RootObj(t0.ops, "layers"), LAMBDA gl :
            IF gl = <<>> THEN [m EXCEPT !.ret = FALSE]
            ELSE Bind(TxDelete(t0, gl[1], id), LAMBDA t1 :
                 Bind(TxRemoveLast(t1, "layer_order", id), LAMBDA t2 :
                     Result(TxCommit(m.store, m.am, t2), TRUE, TRUE))))))))) 

\* Delete every element of a list, from the last index down to 0.
RECURSIVE TxClearList(_, _)
TxClearList(tx, list) ==
    Bind(TxLength(tx, list), LAMBDA len :
        IF len = 0 THEN tx
        ELSE Bind(TxListDelete(tx, list, len - 1),
                  LAMBDA t : TxClearList(t, list)))

\* Insert the values of a sequence at indexes from, from+1, ...
RECURSIVE TxInsertAll(_, _, _, _)
TxInsertAll(tx, list, from, vals) ==
    IF vals = <<>> THEN tx
    ELSE Bind(TxInsert(tx, list, from, Head(vals)), LAMBDA t :
         Bind(Tail(vals), LAMBDA rest :
              TxInsertAll(t, list, from + 1, rest)))

Min(a, b) == IF a <= b THEN a ELSE b

\* Vec::remove / Vec::insert at a 0-based position.
SeqRemove(s, i) == SubSeq(s, 1, i) \o SubSeq(s, i + 2, Len(s))

SeqInsert(s, i, v) == SubSeq(s, 1, i) \o <<v>> \o SubSeq(s, i + 1, Len(s))

\* The order move_layer writes: id taken out and put back at new_index.
MovedOrder(order, id, new_index) ==
    Bind((CHOOSE i \in 1..Len(order) :
             order[i] = id /\ \A j \in 1..(i - 1) : order[j] /= id) - 1,
         LAMBDA current_pos :
    Bind(SeqRemove(order, current_pos), LAMBDA removed :
        SeqInsert(removed, Min(new_index, Len(removed)), id)))

\* move_layer: rewrite layer_order with id moved to new_index.
move_layer(st, D, a, id, new_index) ==
    Bind(read_layer_order(st, D.am), LAMBDA order :
        IF \A i \in 1..Len(order) : order[i] /= id THEN Err(st, D)
        ELSE Bind(MovedOrder(order, id, new_index), LAMBDA new_order :
             Bind(TxBegin(st, D.am, a), LAMBDA t0 :
             Bind(TxGetOrCreate(t0, "layer_order", "List"), LAMBDA o :
             Bind(TxClearList(o.tx, o.obj), LAMBDA t2 :
             Bind(TxInsertAll(t2, o.obj, 0, new_order), LAMBDA t3 :
                 Result(TxCommit(st, D.am, t3), TRUE, TRUE)))))))

(***************************************************************************)
(* Z-order: shape_order lists the shape ids bottom to top.  The ids given  *)
(* to an operation are used as a set (id_set).                             *)
(***************************************************************************)
\* An Ok(()) return that left the document untouched.
Unchanged(st, D) == [store |-> st, am |-> D.am, dirty |-> D.dirty, ret |-> TRUE]

\* set_shape_order: clear the list and insert the given order.
set_shape_order(st, D, a, order) ==
    Bind(TxBegin(st, D.am, a), LAMBDA t0 :
    Bind(TxGetOrCreate(t0, "shape_order", "List"), LAMBDA o :
    Bind(TxClearList(o.tx, o.obj), LAMBDA t2 :
    Bind(TxInsertAll(t2, o.obj, 0, order), LAMBDA t3 :
        Result(TxCommit(st, D.am, t3), TRUE, TRUE)))))

\* order.swap(i, j), 1-based.
Swap(order, i, j) == [order EXCEPT ![i] = order[j], ![j] = order[i]]

\* A loop that visits the positions from the bottom up, so that a swapped
\* id is met again at its new position.
RECURSIVE SwapForward_ascending(_, _, _)
SwapForward_ascending(order, S, i) ==
    IF i < 1 THEN order
    ELSE Bind(Len(order) - i, LAMBDA j :
         Bind(IF order[j] \in S /\ order[j + 1] \notin S
              THEN Swap(order, j, j + 1) ELSE order,
              LAMBDA o : SwapForward_ascending(o, S, i - 1)))

\* bring_forward's loop, for i in (0..len-1).rev(): 1-based from i down.
RECURSIVE SwapForward(_, _, _)
SwapForward(order, S, i) ==
    IF i < 1 THEN order
    ELSE Bind(IF order[i] \in S /\ order[i + 1] \notin S
              THEN Swap(order, i, i + 1) ELSE order,
              LAMBDA o : SwapForward(o, S, i - 1))

bring_forward(st, D, a, ids) ==
    IF ids = {} THEN Unchanged(st, D)
    ELSE Bind(read_shape_order(st, D.am), LAMBDA order :
             set_shape_order(st, D, a,
                             SwapForward(order, ids, Len(order) - 1)))

\* send_backward's loop, for i in 1..len: 1-based from i up.
RECURSIVE SwapBackward(_, _, _)
SwapBackward(order, S, i) ==
    IF i > Len(order) THEN order
    ELSE Bind(IF order[i] \in S /\ order[i - 1] \notin S
              THEN Swap(order, i, i - 1) ELSE order,
              LAMBDA o : SwapBackward(o, S, i + 1))

send_backward(st, D, a, ids) ==
    IF ids = {} THEN Unchanged(st, D)
    ELSE Bind(read_shape_order(st, D.am), LAMBDA order :
             set_shape_order(st, D, a, SwapBackward(order, ids, 2)))

\* A bring_to_front that moves by one position only.
bring_to_front_relative(st, D, a, ids) == bring_forward(st, D, a, ids)

\* bring_to_front: retain the other ids, then extend by the moved ones.
bring_to_front(st, D, a, ids) ==
    IF ids = {} THEN Unchanged(st, D)
    ELSE Bind(read_shape_order(st, D.am), LAMBDA current_order :
             set_shape_order(st, D, a,
                 SelectSeq(current_order, LAMBDA id : id \notin ids)
                    \o SelectSeq(current_order, LAMBDA id : id \in ids)))

\* send_to_back: the moved ids, extended by the retained ones.
send_to_back(st, D, a, ids) ==
    IF ids = {} THEN Unchanged(st, D)
    ELSE Bind(read_shape_order(st, D.am), LAMBDA current_order :
             set_shape_order(st, D, a,
                 SelectSeq(current_order, LAMBDA id : id \in ids)
                    \o SelectSeq(current_order, LAMBDA id : id \notin ids)))

(***************************************************************************)
(* Groups: the groups map holds one object per group with a members list;  *)
(* each member shape carries the group's id in its group_id field.         *)
(***************************************************************************)
\* read_group(id): <<>> for None, <<members>> for Some(group).
ReadGroupOps(ops, id) ==
    Bind(RootObj(ops, "groups"), LAMBDA g :
        IF g = <<>> THEN <<>>
        ELSE Bind(MapGet(ops, g[1], id), LAMBDA gr :
             IF gr = <<>> THEN <<>>
             ELSE Bind(MapGet(ops, OpId(gr[1]), "members"), LAMBDA m :
                  IF m = <<>> THEN << <<>> >>
                  ELSE <<ListVals(ops, OpId(m[1]))>>)))

read_group(st, d, id) == Bind(OpsOf(st, d), LAMBDA ops : ReadGroupOps(ops, id))

\* The keys of the groups map (the ids read_all_groups visits).
GroupKeys(st, d) ==
    Bind(OpsOf(st, d), LAMBDA ops :
    Bind(RootObj(ops, "groups"), LAMBDA g :
        IF g = <<>> THEN {} ELSE MapKeys(ops, g[1])))

\* get_shape_group: <<>> for None, <<group>> for Some(group).
get_shape_group(st, d, id) ==
    Bind(OpsOf(st, d), LAMBDA ops :
    Bind(RootObj(ops, "shapes"), LAMBDA g :
        IF g = <<>> THEN <<>>
        ELSE Bind(MapGet(ops, g[1], id), LAMBDA sh :
             IF sh = <<>> THEN <<>>
             ELSE Bind(MapGet(ops, OpId(sh[1]), "group_id"), LAMBDA l :
                  IF l = <<>> THEN <<>> ELSE <<OpVal(l[1])>>))))

\* set_shape_group: put or delete the group_id field of an existing shape.
set_shape_group(st, D, a, id, group_id) ==
    Bind(TxBegin(st, D.am, a), LAMBDA t0 :
    Bind(RootObj(t0.ops, "shapes"), LAMBDA g :
        IF g = <<>> THEN Err(st, D)
        ELSE Bind(MapGet(t0.ops, g[1], id), LAMBDA sh :
             Bind(IF sh = <<>> THEN t0
                  ELSE IF group_id /= <<>>
                  THEN TxPut(t0, OpId(sh[1]), "group_id", group_id[1])
                  ELSE TxDelete(t0, OpId(sh[1]), "group_id"),
                  LAMBDA t1 : Result(TxCommit(st, D.am, t1), TRUE, TRUE)))))

\* A loop over the members that sets no group_id.
SetShapeGroups_none(st, D, a, members, group_id) ==
    [store |-> st, am |-> D.am, dirty |-> D.dirty, ret |-> TRUE]

\* for member_id in members { set_shape_group(member_id, group_id) }
RECURSIVE SetShapeGroups(_, _, _, _, _)
SetShapeGroups(st, D, a, members, group_id) ==
    IF members = <<>>
    THEN [store |-> st, am |-> D.am, dirty |-> D.dirty, ret |-> TRUE]
    ELSE Bind(set_shape_group(st, D, a, Head(members), group_id), LAMBDA r :
         Bind(Tail(members), LAMBDA rest :
             IF ~r.ret THEN r
             ELSE SetShapeGroups(r.store, [am |-> r.am, dirty |-> r.dirty],
                                 a, rest, group_id)))

\* create_group with the fresh GroupId id: the group object in one
\* transaction, then one set_shape_group per member.
create_group(st, D, a, id, members, parent) ==
    IF members = <<>> THEN Err(st, D)
    ELSE Bind(TxBegin(st, D.am, a), LAMBDA t0 :
         Bind(TxGetOrCreate(t0, "groups", "Map"), LAMBDA g :
         Bind(TxPutObject(g.tx, g.obj, id, "Map"), LAMBDA t2 :
         Bind(TxPutObject(t2, TxNextId(g.tx), "members", "List"), LAMBDA t3 :
         Bind(TxInsertAll(t3, TxNextId(t2), 0, members), LAMBDA t4 :
         Bind(IF parent = <<>> THEN t4
              ELSE TxPut(t4, TxNextId(g.tx), "parent", parent[1]), LAMBDA t5 :
         Bind(TxCommit(st, D.am, t5), LAMBDA c :
         Bind(SetShapeGroups(c.store, [am |-> c.am, dirty |-> D.dirty], a,
                             members, <<id>>), LAMBDA r :
             IF ~r.ret THEN r ELSE [r EXCEPT !.dirty = TRUE]))))))))

\* delete_group: clear group_id of the members read_group returns (errors
\* ignored), then delete the key of the groups map.
delete_group(st, D, a, id) ==
    Bind(read_group(st, D.am, id), LAMBDA grp :
    Bind(SetShapeGroups(st, D, a, IF grp = <<>> THEN <<>> ELSE grp[1], <<>>),
         LAMBDA m :
    Bind(TxBegin(m.store, m.am, a), LAMBDA t0 :
    Bind(RootObj(t0.ops, "groups"), LAMBDA g :
        IF g = <<>> THEN [m EXCEPT !.ret = FALSE]
        ELSE Bind(TxDelete(t0, g[1], id), LAMBDA t1 :
                 Result(TxCommit(m.store, m.am, t1), TRUE, TRUE))))))

\* translate_shape: read the shape, move it, and update_shape the result.
translate_shape(st, D, a, id, dx) ==
    Bind({s \in read_all_shapes(st, D.am) : s[1] = id}, LAMBDA found :
        IF found = {} THEN [store |-> st, am |-> D.am, dirty |-> D.dirty,
                            ret |-> TRUE]
        ELSE Bind(CHOOSE s \in found : TRUE, LAMBDA s :
                 update_shape(st, D, a, id,
                              <<s[2][1], s[2][2] + dx, s[2][3]>>)))

(***************************************************************************)
(* Global undo / redo: snapshots of the shape set kept in two lists of the *)
(* document itself.                                                        *)
(***************************************************************************)
MAX_UNDO_HISTORY == 50

\* serialize_shapes: the vector of read_all_shapes (key order).  The byte
\* string of rmp_serde is modelled by the vector it encodes; from_slice
\* returns that vector.
serialize_shapes(st, d) ==
    Bind(read_all_shapes(st, d), LAMBDA all :
    Bind(SortAsc({s[1] : s \in all}), LAMBDA ids :
        [i \in 1..Len(ids) |-> CHOOSE s \in all : s[1] = ids[i]]))

UndoStackOps(ops) ==
    Bind(RootObj(ops, "undo_stack"), LAMBDA g :
        IF g = <<>> THEN <<>> ELSE ListVals(ops, g[1]))

RedoStackOps(ops) ==
    Bind(RootObj(ops, "redo_stack"), LAMBDA g :
        IF g = <<>> THEN <<>> ELSE ListVals(ops, g[1]))

\* The snapshots of undo_stack / redo_stack, oldest first.
UndoStack(st, d) == Bind(OpsOf(st, d), LAMBDA ops : UndoStackOps(ops))

RedoStack(st, d) == Bind(OpsOf(st, d), LAMBDA ops : RedoStackOps(ops))

\* while tx.length(list) > max { tx.delete(list, 0) }
RECURSIVE TxTrimFront(_, _, _)
TxTrimFront(tx, list, max) ==
    IF TxLength(tx, list) > max
    THEN Bind(TxListDelete(tx, list, 0),
              LAMBDA t : TxTrimFront(t, list, max))
    ELSE tx

\* push_undo_checkpoint
push_undo_checkpoint(st, D, a) ==
    Bind(serialize_shapes(st, D.am), LAMBDA snapshot :
    Bind(TxBegin(st, D.am, a), LAMBDA t0 :
    Bind(TxGetOrCreate(t0, "undo_stack", "List"), LAMBDA u :
    Bind(TxGetOrCreate(u.tx, "redo_stack", "List"), LAMBDA r :
    Bind(TxClearList(r.tx, r.obj), LAMBDA t3 :
    Bind(TxInsert(t3, u.obj, TxLength(t3, u.obj), snapshot), LAMBDA t4 :
    Bind(TxTrimFront(t4, u.obj, MAX_UNDO_HISTORY), LAMBDA t5 :
        Result(TxCommit(st, D.am, t5), TRUE, TRUE))))))))

\* An undo that does not clear the current shapes before restoring.
TxDeleteKeys_skip(tx, obj, keys) == tx

\* for key in existing_keys { tx.delete(shapes_obj, key) }
RECURSIVE TxDeleteKeys(_, _, _)
TxDeleteKeys(tx, obj, keys) ==
    IF keys = <<>> THEN tx
    ELSE Bind(TxDelete(tx, obj, Head(keys)), LAMBDA t :
         Bind(Tail(keys), LAMBDA rest : TxDeleteKeys(t, obj, rest)))

\* for (id, kind) in shapes { put_object; write_shape_kind }
RECURSIVE TxRestoreShapes(_, _, _)
TxRestoreShapes(tx, obj, shapes) ==
    IF shapes = <<>> THEN tx
    ELSE Bind(TxPutObject(tx, obj, Head(shapes)[1],
                          write_shape_kind(Head(shapes)[2])), LAMBDA t :
         Bind(Tail(shapes), LAMBDA rest : TxRestoreShapes(t, obj, rest)))

\* The common body of global_undo (from = "undo_stack", to = "redo_stack")
\* and global_redo (the mirror).
UndoRedo(st, D, a, from, to) ==
    Bind(TxBegin(st, D.am, a), LAMBDA t0 :
    Bind(RootObj(t0.ops, from), LAMBDA gf :
        IF gf = <<>> THEN Err(st, D)
        ELSE
        Bind(ListVals(t0.ops, gf[1]), LAMBDA stack :
            IF Len(stack) = 0 THEN Err(st, D)
            ELSE
            Bind(stack[Len(stack)], LAMBDA prev_shapes :
            Bind(serialize_shapes(st, D.am), LAMBDA current_snapshot :
            Bind(RootObj(t0.ops, "shapes"), LAMBDA gs :
                IF gs = <<>> THEN Err(st, D)
                ELSE
                Bind(SortAsc(MapKeys(t0.ops, gs[1])), LAMBDA existing_keys :
                Bind(TxListDelete(t0, gf[1], Len(stack) - 1), LAMBDA t1 :
                Bind(TxGetOrCreate(t1, to, "List"), LAMBDA r :
                Bind(TxInsert(r.tx, r.obj, TxLength(r.tx, r.obj),
                              current_snapshot), LAMBDA t3 :
                Bind(TxDeleteKeys(t3, gs[1], existing_keys), LAMBDA t4 :
                Bind(TxRestoreShapes(t4, gs[1], prev_shapes), LAMBDA t5 :
                    Result(TxCommit(st, D.am, t5), TRUE, TRUE)))))))))))))

\* A redo that pushes the current snapshot back onto the stack it popped.
global_redo_same_stack(st, D, a) ==
    UndoRedo(st, D, a, "redo_stack", "redo_stack")

\* global_undo: ret FALSE is Ok(false), nothing to undo.
global_undo(st, D, a) == UndoRedo(st, D, a, "undo_stack", "redo_stack")

\* global_redo
global_redo(st, D, a) == UndoRedo(st, D, a, "redo_stack", "undo_stack")

(***************************************************************************)
(* State                                                                   *)
(***************************************************************************)
VARIABLES
    store,         \* change id -> [deps, ops]: every change ever committed
    document,      \* replica -> [am, dirty]: the App's Document
    nextId,        \* replica -> number of ids (Uuid::new_v4) it has drawn
    active_layer,  \* replica -> App::active_layer, <<>> for None
    quota,         \* number of API calls still to be explored
    last,          \* history: the last API call, its result and pre-state
    trail,         \* history: replica -> documents as of its open checkpoints
    undone,        \* history: replica -> document before its latest undo
    syncDoc,       \* replica -> Inner.doc, the sync thread's document
    changeVer,     \* replica -> value of the watch channel change_tx
    commandQ,      \* replica -> SyncDoc commands on their way to the sync thread
    syncQ,         \* replica -> documents in the sync_tx channel
    eventQ,        \* replica -> RemoteChanges events on their way to main
    conn,          \* replica -> its connection task: pc, after, seen, st
    wire,          \* replica -> frames in flight towards it
    processed,     \* history: replica -> the sync messages it has received
    edits,         \* history: replica -> its local edits
    drops,         \* number of connections dropped so far
    peers,         \* PresenceManager.peers: peer id -> age of its last update
    last_stale_prune, \* run_app: seconds since the last prune_stale()
    aborted,       \* the processes that the allocator has aborted
    local_presence,  \* PresenceInner.local_presence of each process
    latest,        \* history: the presence of the last broadcast() call
    outgoing_rx,   \* the broadcast subscriber of each presence task
    ptask,         \* the presence task of each process
    pwire,         \* presence frames on their way to each process
    incoming,      \* presence messages passed on through incoming_tx
    sync_thread,   \* the sync thread of each process: where run_sync is
    events,        \* the SyncEvents each sync thread has sent
    storage_path,  \* Document.storage_path of each replica
    disk,          \* the files on disk
    walk           \* the loop of get_root_group / get_all_group_shapes

netVars == <<local_presence, latest, outgoing_rx, ptask, pwire, incoming,
             sync_thread, events>>

diskVars == <<storage_path, disk, walk>>

presenceVars == <<peers, last_stale_prune, netVars, diskVars>>

syncVars == <<syncDoc, changeVer, commandQ, syncQ, eventQ, conn, wire,
              processed, edits, drops, presenceVars, aborted>>

vars == <<store, document, nextId, active_layer, quota, last, trail, undone,
          syncVars>>

\* Edits, drops and bad frames explored in FaultSpec.
MaxFaultEvents == 2

\* Number of API calls explored on the single replica of UndoSpec.
MaxUndoOps == 6

\* Ids a replica may draw.
MaxIds == 1

\* The kinds given to add_shape / update_shape.
Kinds == { <<"Rectangle", 1, << <<"a">> >> >>,
           <<"Text", 0, << <<QUOTE, "a">> >> >> }

BaseLayer == 1

\* The id replica p draws next: distinct from every other id.
FreshId(p) == 10 * p + nextId[p]

AllIds == {10 * p + n : p \in Procs, n \in 0..MaxIds}

NoCall == [op |-> "none", p |-> 0, ret |-> TRUE, pre |-> [am |-> {}, dirty |-> FALSE],
           exp |-> <<>>]

\* A document file written by Document::new() and save(), which both
\* replicas load.
BaseDoc == DocumentNew(<<>>, BaseActor, 0, BaseLayer)

\* No connection task: a task not running has pc "closed".
\* The files a document may be saved to.
Paths == {"a.automerge", "b.automerge"}

NoFile == [st |-> "none", bytes |-> {}]

\* No call of get_root_group or get_all_group_shapes is under way.
NoWalk == [pc |-> "idle", fn |-> "", arg |-> 0, current |-> 0, seen |-> {},
           to_visit |-> <<>>, visited |-> {}, all_shapes |-> <<>>]

NoThread == [pc |-> "off", mode |-> "", bound |-> FALSE, shutdown |-> FALSE,
             left |-> FALSE, joined |-> FALSE]

NoTask == [pc |-> "closed", pending |-> <<>>, fwd |-> <<>>, why |-> ""]

NoConn == [pc |-> "closed", seen |-> 0, st |-> SyncStateNew, guard |-> FALSE,
           flushed |-> {}]

\* The sync thread as spawned (Inner.doc = Automerge::new()) and idle.
SyncIdle ==
    /\ syncDoc = [p \in Procs |-> {}]
    /\ changeVer = [p \in Procs |-> 0]
    /\ commandQ = [p \in Procs |-> <<>>]
    /\ syncQ = [p \in Procs |-> <<>>]
    /\ eventQ = [p \in Procs |-> <<>>]
    /\ conn = [p \in Procs |-> NoConn]
    /\ wire = [p \in Procs |-> <<>>]
    /\ processed = [p \in Procs |-> {}]
    /\ edits = [p \in Procs |-> <<>>]
    /\ drops = 0
    /\ peers = [q \in {} |-> 0]
    /\ last_stale_prune = 0
    /\ aborted = {}
    /\ local_presence = [p \in Procs |-> <<>>]
    /\ latest = [p \in Procs |-> <<>>]
    /\ outgoing_rx = [p \in Procs |-> [q |-> <<>>, lagged |-> FALSE]]
    /\ ptask = [p \in Procs |-> NoTask]
    /\ pwire = [p \in Procs |-> <<>>]
    /\ incoming = [p \in Procs |-> <<>>]
    /\ events = [p \in Procs |-> <<>>]
    /\ storage_path = [p \in Procs |-> <<>>]
    /\ disk = [f \in Paths |-> NoFile]
    /\ walk = NoWalk

\* No connection yet; run_sync of every process is in its loop.
SyncOff ==
    /\ SyncIdle
    /\ sync_thread = [p \in Procs |-> [NoThread EXCEPT !.pc = "loop"]]

InitShared(n) ==
    /\ store = BaseDoc.store
    /\ document = [p \in Procs |-> [am |-> BaseDoc.am, dirty |-> FALSE]]
    /\ nextId = [p \in Procs |-> 0]
    /\ active_layer = [p \in Procs |-> <<>>]
    /\ quota = n
    /\ last = NoCall
    /\ trail = [p \in Procs |-> <<>>]
    /\ undone = [p \in Procs |-> <<>>]
    /\ SyncOff

\* The effect of an API call of replica p with result r.
Apply(p, op, result, exp) ==
    /\ quota > 0
    /\ quota' = quota - 1
    /\ \E r \in {result} :
          /\ store' = r.store
          /\ document' = [document EXCEPT
                             ![p] = [am |-> r.am, dirty |-> r.dirty]]
          /\ last' = [op |-> op, p |-> p, ret |-> r.ret, pre |-> document[p],
                      exp |-> exp]

\* An API call on a replica whose sync thread is idle.
Call(p, op, result, exp) ==
    /\ Apply(p, op, result, exp)
    /\ UNCHANGED syncVars

Actor(p) == p

AddShapeOf(p, kinds) ==
    /\ nextId[p] < MaxIds
    /\ \E kind \in kinds :
          Call(p, "add_shape",
               add_shape(store, document[p], Actor(p), FreshId(p), kind), <<>>)
    /\ nextId' = [nextId EXCEPT ![p] = @ + 1]
    /\ undone' = [undone EXCEPT ![p] = <<>>]
    /\ UNCHANGED <<active_layer, trail>>

UpdateShape(p) ==
    /\ \E id \in {s[1] : s \in read_all_shapes(store, document[p].am)},
          kind \in Kinds :
          Call(p, "update_shape",
               update_shape(store, document[p], Actor(p), id, kind), <<>>)
    /\ undone' = [undone EXCEPT ![p] = <<>>]
    /\ UNCHANGED <<nextId, active_layer, trail>>

AddShape(p) == AddShapeOf(p, Kinds)

DeleteShape(p) ==
    /\ \E id \in {s[1] : s \in read_all_shapes(store, document[p].am)} :
          Call(p, "delete_shape",
               delete_shape(store, document[p], Actor(p), id), <<>>)
    /\ undone' = [undone EXCEPT ![p] = <<>>]
    /\ UNCHANGED <<nextId, active_layer, trail>>

\* The newest max entries of a sequence.
KeepNewest(s, max) ==
    IF Len(s) > max THEN SubSeq(s, Len(s) - max + 1, Len(s)) ELSE s

PushUndoCheckpoint(p) ==
    /\ Call(p, "push_undo_checkpoint",
            push_undo_checkpoint(store, document[p], Actor(p)), <<>>)
    /\ trail' = [trail EXCEPT ![p] =
                    KeepNewest(Append(@, document[p].am), MAX_UNDO_HISTORY)]
    /\ undone' = [undone EXCEPT ![p] = <<>>]
    /\ UNCHANGED <<nextId, active_layer>>

GlobalUndo(p) ==
    \E r \in {global_undo(store, document[p], Actor(p))} :
       LET t == trail[p]
       IN /\ Call(p, "global_undo", r,
                  IF t = <<>> THEN <<>> ELSE <<t[Len(t)]>>)
          /\ trail' = [trail EXCEPT ![p] =
                          IF r.ret /\ t /= <<>> THEN SubSeq(t, 1, Len(t) - 1)
                          ELSE @]
          /\ undone' = [undone EXCEPT ![p] =
                           IF r.ret THEN <<document[p].am>> ELSE <<>>]
          /\ UNCHANGED <<nextId, active_layer>>

GlobalRedo(p) ==
    \E r \in {global_redo(store, document[p], Actor(p))} :
       /\ Call(p, "global_redo", r, undone[p])
       /\ trail' = [trail EXCEPT ![p] =
                       IF r.ret THEN Append(@, document[p].am) ELSE @]
       /\ undone' = [undone EXCEPT ![p] = <<>>]
       /\ UNCHANGED <<nextId, active_layer>>

\* App::merge_remote with a clone of the peer's document, as the sync
\* thread hands it over once the peers have exchanged their changes.
MergeRemote(p, q) ==
    /\ p /= q
    /\ ~(document[q].am \subseteq document[p].am)
    /\ \E r \in {merge(store, document[p], document[q].am)} :
          /\ store' = r.store
          /\ document' = [document EXCEPT
                             ![p] = [am |-> r.am, dirty |-> r.dirty]]
          /\ last' = [op |-> "merge", p |-> p, ret |-> r.ret,
                      pre |-> document[p], exp |-> <<>>]
    /\ trail' = [trail EXCEPT ![p] = <<>>]
    /\ undone' = [undone EXCEPT ![p] = <<>>]
    /\ UNCHANGED <<nextId, active_layer, quota, syncVars>>

(***************************************************************************)
(* UndoSpec: one replica working through the shape and undo API.           *)
(***************************************************************************)
UndoInit == InitShared(MaxUndoOps)

UndoNext ==
    \E p \in {1} :
       \/ AddShape(p)
       \/ UpdateShape(p)
       \/ DeleteShape(p)
       \/ PushUndoCheckpoint(p)
       \/ GlobalUndo(p)
       \/ GlobalRedo(p)

UndoSpec == UndoInit /\ [][UndoNext]_vars

\* C5: on a single replica, a global_undo() issued while checkpoints of
\* this replica are open returns true and leaves read_all_shapes() equal to
\* the shape set as of the newest open checkpoint; so after N steps of
\* checkpoint and mutation, N undos return true and the N-th restores the
\* shape set from before the first checkpoint.
C5_UndoRestores ==
    (last.op = "global_undo" /\ last.exp /= <<>>) =>
        /\ last.ret
        /\ read_all_shapes(store, document[last.p].am)
              = read_all_shapes(store, last.exp[1])

\* Two checkpoint+mutation steps were undone by two consecutive undos, and
\* the mutations had changed the shape set.
C5_Witness ==
    /\ last.op = "global_undo" /\ last.exp /= <<>> /\ last.ret
    /\ undone[last.p] /= <<>>
    /\ Len(RedoStack(store, document[last.p].am)) = 2
    /\ trail[last.p] = <<>>
    /\ LET rs == RedoStack(store, document[last.p].am)
       IN /\ rs[1] /= rs[2]
          /\ rs[2] /= serialize_shapes(store, document[last.p].am)

\* C6: global_redo() immediately after a successful global_undo() leaves
\* read_all_shapes() equal to the shape set before the undo and the undo and
\* redo stacks as long as they were before the undo.
C6_UndoRedoRoundTrip ==
    (last.op = "global_redo" /\ last.exp /= <<>>) =>
        LET now == document[last.p].am
            was == last.exp[1]
        IN /\ last.ret
           /\ read_all_shapes(store, now) = read_all_shapes(store, was)
           /\ Len(UndoStack(store, now)) = Len(UndoStack(store, was))
           /\ Len(RedoStack(store, now)) = Len(RedoStack(store, was))

\* A redo right after an undo, where the undo had changed the shape set.
C6_Witness ==
    /\ last.op = "global_redo" /\ last.exp /= <<>> /\ last.ret
    /\ read_all_shapes(store, last.pre.am)
          /= read_all_shapes(store, document[last.p].am)
    /\ Len(UndoStack(store, document[last.p].am)) >= 1

(***************************************************************************)
(* HistorySpec: two replicas that loaded a document whose undo history is  *)
(* one entry short of MAX_UNDO_HISTORY, pushing, undoing, redoing and      *)
(* merging each other's changes.                                           *)
(***************************************************************************)
\* Number of API calls explored in HistorySpec.
MaxHistoryOps == 3

\* The replicas have not loaded the document file yet: no call is allowed.
HistoryInit == InitShared(0)

\* Before the replicas load the file, its author pushes a checkpoint (and
\* saves); the replicas load the file when it holds MAX_UNDO_HISTORY - 1
\* checkpoints.
AuthorCheckpoint ==
    /\ last.op \in {"none", "author"}
    /\ quota = 0
    /\ \E r \in {push_undo_checkpoint(store, document[1], BaseActor)} :
          /\ store' = r.store
          /\ document' = [p \in Procs |-> [am |-> r.am, dirty |-> FALSE]]
          /\ quota' = IF Len(UndoStack(r.store, r.am)) = MAX_UNDO_HISTORY - 1
                      THEN MaxHistoryOps ELSE 0
    /\ last' = [NoCall EXCEPT !.op = "author"]
    /\ UNCHANGED <<nextId, active_layer, trail, undone, syncVars>>

HistoryNext ==
    \/ AuthorCheckpoint
    \/ \E p \in Procs :
          \/ AddShape(p)
          \/ PushUndoCheckpoint(p)
          \/ GlobalUndo(p)
          \/ GlobalRedo(p)
          \/ \E q \in Procs : MergeRemote(p, q)

HistorySpec == HistoryInit /\ [][HistoryNext]_vars

\* The undo stack of every replica holds at most MAX_UNDO_HISTORY entries.
C7_UndoStackBound ==
    \A p \in Procs : Len(UndoStack(store, document[p].am)) <= MAX_UNDO_HISTORY

\* push_undo_checkpoint() empties the redo stack and appends the snapshot
\* just taken, dropping the oldest entry of a full stack.
C7_PushEffect ==
    (last.op = "push_undo_checkpoint") =>
          LET now == UndoStack(store, document[last.p].am)
              was == UndoStack(store, last.pre.am)
          IN /\ RedoStack(store, document[last.p].am) = <<>>
             /\ now = KeepNewest(
                          Append(was, serialize_shapes(store, last.pre.am)),
                          MAX_UNDO_HISTORY)

\* C7: in every reachable state of every replica undo_stack holds at most
\* MAX_UNDO_HISTORY entries; and right after push_undo_checkpoint() the
\* redo stack is empty, the newest entry is the snapshot just taken, and a
\* stack that was full has lost its oldest entry only.
C7_BoundedUndoHistory == C7_UndoStackBound /\ C7_PushEffect

(***************************************************************************)
(* LayerSpec: two replicas that loaded the same document, working through  *)
(* the layer API and merging each other's changes.                         *)
(***************************************************************************)
\* Number of requests the replicas make in LayerSpec.
MaxLayerOps == 2

\* Ids of the shape and of the second layer the author of the file makes.
AuthorShape == 2

AuthorLayer == 3

ShapeIds(p) == {s[1] : s \in read_all_shapes(store, document[p].am)}

LayerIds(p) ==
    Bind(read_layer_order(store, document[p].am),
         LAMBDA o : {o[i] : i \in 1..Len(o)})

\* Calls that leave the undo history variables alone but end a redo window.
LayerCall(p) ==
    /\ undone' = [undone EXCEPT ![p] = <<>>]
    /\ UNCHANGED <<active_layer, trail>>

CreateLayer(p) ==
    /\ nextId[p] < MaxIds
    /\ Call(p, "create_layer",
            create_layer(store, document[p], Actor(p), FreshId(p),
                         <<"L">>), <<>>)
    /\ nextId' = [nextId EXCEPT ![p] = @ + 1]
    /\ LayerCall(p)

DeleteLayer(p) ==
    /\ \E id \in LayerIds(p) :
          Call(p, "delete_layer",
               delete_layer(store, document[p], Actor(p), id), <<id>>)
    /\ LayerCall(p)
    /\ UNCHANGED nextId

MoveLayer(p) ==
    /\ \E id \in LayerIds(p) :
       \E new_index \in 0..Cardinality(LayerIds(p)) :
          Call(p, "move_layer",
               move_layer(store, document[p], Actor(p), id, new_index), <<id>>)
    /\ LayerCall(p)
    /\ UNCHANGED nextId

\* set_shape_layer with a layer of the replica's own layer_order.
SetShapeLayer(p) ==
    /\ \E id \in ShapeIds(p) : \E layer_id \in LayerIds(p) :
          Call(p, "set_shape_layer",
               set_shape_layer(store, document[p], Actor(p), id, layer_id),
               <<layer_id>>)
    /\ LayerCall(p)
    /\ UNCHANGED nextId

\* App::select_layer_by_index (1-based index)
SelectLayerByIndex(p) ==
    /\ quota > 0
    /\ \E layers \in {read_all_layers(store, document[p].am)} :
       \E index \in 1..Len(layers) :
          /\ active_layer[p] /= <<layers[index]>>
          /\ active_layer' = [active_layer EXCEPT ![p] = <<layers[index]>>]
    /\ quota' = quota - 1
    /\ UNCHANGED <<store, document, nextId, last, trail, undone, syncVars>>

\* App::delete_active_layer: save_undo_state(), then delete_layer.
DeleteActiveLayer(p) ==
    /\ active_layer[p] /= <<>>
    /\ \E u \in {push_undo_checkpoint(store, document[p], Actor(p))} :
       \E r \in {delete_layer(u.store, [am |-> u.am, dirty |-> u.dirty],
                              Actor(p), active_layer[p][1])} :
       \E order \in {read_layer_order(r.store, r.am)} :
          /\ Call(p, "delete_active_layer", r, active_layer[p])
          /\ active_layer' = [active_layer EXCEPT ![p] =
                IF r.ret
                THEN IF order = <<>> THEN <<>> ELSE <<order[1]>>
                ELSE @]
    /\ trail' = [trail EXCEPT ![p] =
                    KeepNewest(Append(@, document[p].am), MAX_UNDO_HISTORY)]
    /\ undone' = [undone EXCEPT ![p] = <<>>]
    /\ UNCHANGED nextId

\* The replicas have not loaded the document file yet: no call is allowed.
LayerInit == InitShared(0)

Authoring == quota = 0 /\ last.op \in {"none", "author"}

\* The file as the author's call leaves it.
AuthorCall(r) ==
    /\ store' = r.store
    /\ document' = [p \in Procs |-> [am |-> r.am, dirty |-> FALSE]]
    /\ last' = [NoCall EXCEPT !.op = "author"]
    /\ UNCHANGED <<nextId, active_layer, quota, trail, undone, syncVars>>

\* Before the replicas load the file, its author may add a shape to it
AuthorAddShape ==
    /\ Authoring
    /\ ShapeIds(1) = {}
    /\ \E r \in {add_shape(store, document[1], BaseActor, AuthorShape,
                            <<"Rectangle", 0, <<>>>>)} : AuthorCall(r)

\* and may create a second layer.
AuthorCreateLayer ==
    /\ Authoring
    /\ LayerIds(1) = {BaseLayer}
    /\ \E r \in {create_layer(store, document[1], BaseActor, AuthorLayer,
                               <<"L">>)} : AuthorCall(r)

\* Both replicas load the file.
LoadFile ==
    /\ Authoring
    /\ quota' = MaxLayerOps
    /\ last' = [NoCall EXCEPT !.op = "load"]
    /\ UNCHANGED <<store, document, nextId, active_layer, trail, undone,
                   syncVars>>

LayerNext ==
    \/ AuthorAddShape
    \/ AuthorCreateLayer
    \/ LoadFile
    \/ \E p \in Procs :
       \/ AddShapeOf(p, {<<"Rectangle", 0, <<>>>>})
       \/ CreateLayer(p)
       \/ DeleteLayer(p)
       \/ MoveLayer(p)
       \/ SetShapeLayer(p)
       \/ SelectLayerByIndex(p)
       \/ DeleteActiveLayer(p)
       \/ \E q \in Procs : MergeRemote(p, q)

LayerSpec == LayerInit /\ [][LayerNext]_vars

\* C8: layer_order holds at least one entry in every reachable state of
\* every replica.
C8_LayerOrderNonEmpty ==
    \A p \in Procs : Len(read_layer_order(store, document[p].am)) >= 1

\* The explicit layer reference of each shape of a document, as a set of
\* <<shape, layer>> pairs.
LayerRefs(d) ==
    {<<s[1], get_shape_layer(store, d, s[1])[1]>> :
        s \in {x \in read_all_shapes(store, d) :
                  get_shape_layer(store, d, x[1]) /= <<>>}}

\* C9: a request to delete the only layer returns an error and changes
\* nothing: layers, layer_order, the shapes' layer references, the undo and
\* redo stacks and the dirty flag are as before the request.
C9_RejectedDeleteHasNoEffect ==
    (/\ last.op \in {"delete_layer", "delete_active_layer"}
     /\ Len(read_layer_order(store, last.pre.am)) = 1) =>
        LET now == document[last.p]
        IN /\ ~last.ret
           /\ LayerKeys(store, now.am) = LayerKeys(store, last.pre.am)
           /\ read_layer_order(store, now.am)
                 = read_layer_order(store, last.pre.am)
           /\ LayerRefs(now.am) = LayerRefs(last.pre.am)
           /\ UndoStack(store, now.am) = UndoStack(store, last.pre.am)
           /\ RedoStack(store, now.am) = RedoStack(store, last.pre.am)
           /\ now.dirty = last.pre.dirty

\* Document::delete_layer itself, called on a one-layer document, leaves
\* the whole Document value as it was.
DeleteLayerAloneHasNoEffect ==
    (last.op = "delete_layer"
        /\ Len(read_layer_order(store, last.pre.am)) = 1) =>
        ~last.ret /\ document[last.p] = last.pre

\* C10, first part: after a successful delete_layer(L), L is in neither
\* layers nor layer_order, every shape that referenced L references a
\* layer of layer_order, and every other shape keeps its reference.
C10_DeleteLayerEffect ==
    (last.op = "delete_layer" /\ last.ret) =>
        LET now == document[last.p].am
            L == last.exp[1]
            order == read_layer_order(store, now)
        IN /\ L \notin LayerKeys(store, now)
           /\ \A i \in 1..Len(order) : order[i] /= L
           /\ \A r \in LayerRefs(last.pre.am) :
                 IF r[2] = L
                 THEN \E i \in 1..Len(order) :
                         get_shape_layer(store, now, r[1]) = <<order[i]>>
                 ELSE get_shape_layer(store, now, r[1]) = <<r[2]>>

\* C10, second part: in every reachable state each shape's explicit layer
\* reference names a layer present in the document.
C10_LayerRefsValid ==
    \A p \in Procs : \A r \in LayerRefs(document[p].am) :
        r[2] \in LayerKeys(store, document[p].am)

\* C10: a successful delete_layer(L) removes L and re-homes the shapes that
\* referenced it, and in every reachable state each explicit layer
\* reference names a layer present in the document.
C10_ShapesReferenceLiveLayers == C10_DeleteLayerEffect /\ C10_LayerRefsValid

(***************************************************************************)
(* SyncSpec: two processes, each with its main thread (the App and its     *)
(* Document), its sync thread (the command loop and Inner.doc) and, while  *)
(* connected, its connection task running run_bidirectional_sync.          *)
(***************************************************************************)
\* Number of local edits and connection drops in SyncSpec.
MaxSyncEvents == 2

\* Capacity of the sync_tx channel.
SyncChannelCap == 10

\* Document::new() run by each process on its own.
OwnDoc1 == DocumentNew(<<>>, 1, 1, 6)

OwnDoc2 == DocumentNew(OwnDoc1.store, 2, 2, 7)

\* Either both processes load the same document file, or each starts with
\* its own Document::new().
SyncInit ==
    /\ \/ /\ store = BaseDoc.store
          /\ document = [p \in Procs |-> [am |-> BaseDoc.am, dirty |-> FALSE]]
       \/ /\ store = OwnDoc2.store
          /\ document = [p \in Procs |->
                            [am |-> IF p = 1 THEN OwnDoc1.am ELSE OwnDoc2.am,
                             dirty |-> FALSE]]
    /\ nextId = [p \in Procs |-> 0]
    /\ active_layer = [p \in Procs |-> <<>>]
    /\ quota = MaxSyncEvents
    /\ last = NoCall
    /\ trail = [p \in Procs |-> <<>>]
    /\ undone = [p \in Procs |-> <<>>]
    /\ SyncOff

\* The main loop after an edit: app.clone_automerge() goes to the sync
\* thread as a SyncDoc command.
Edit(p, op, result, id, kind) ==
    /\ p \notin aborted
    /\ Apply(p, op, result, <<>>)
    /\ commandQ' = [commandQ EXCEPT ![p] = Append(@, document'[p].am)]
    /\ edits' = [edits EXCEPT
                    ![p] = Append(@, <<op, id, kind, conn[p].pc = "closed">>)]
    /\ UNCHANGED <<active_layer, trail, undone, syncDoc, changeVer, syncQ,
                   eventQ, conn, wire, processed, drops, presenceVars,
                   aborted>>

SyncAddShape(p) ==
    /\ nextId[p] < MaxIds
    /\ \E kind \in {<<"Rectangle", p, <<>>>>} :
          Edit(p, "add_shape",
               add_shape(store, document[p], Actor(p), FreshId(p), kind),
               FreshId(p), kind)
    /\ nextId' = [nextId EXCEPT ![p] = @ + 1]

SyncUpdateShape(p) ==
    /\ \E id \in {s[1] : s \in read_all_shapes(store, document[p].am)} :
       \E kind \in {<<"Rectangle", 2, <<>>>>} :
          Edit(p, "update_shape",
               update_shape(store, document[p], Actor(p), id, kind), id, kind)
    /\ UNCHANGED nextId

SyncDeleteShape(p) ==
    /\ \E id \in {s[1] : s \in read_all_shapes(store, document[p].am)} :
          Edit(p, "delete_shape",
               delete_shape(store, document[p], Actor(p), id), id, <<>>)
    /\ UNCHANGED nextId

Peer(p) == 3 - p

\* A document is on its way from a connection task to the main thread, or
\* an empty frame is waiting to be read.
Relaying ==
    \E p \in Procs :
       \/ syncQ[p] /= <<>>
       \/ eventQ[p] /= <<>>
       \/ conn[p].pc = "notify"
       \/ /\ conn[p].pc = "select"
          /\ wire[p] /= <<>>
          /\ Head(wire[p]) = Sentinel

\* Handing a document over and passing over an empty frame commute with
\* every step of the command loops and of the connection tasks, so one
\* order is followed: these steps wait until nothing is being relayed.
Settled == ~Relaying

\* A sync message is waiting to be read by the task of p.
Receiving(p) ==
    /\ conn[p].pc = "select"
    /\ wire[p] /= <<>>
    /\ Head(wire[p]) /= Sentinel

\* The steps of the two sync threads commute with each other, whereas a
\* step of one thread that reads a message does not commute with the other
\* steps of that thread.  So while a message is waiting on one side, the
\* steps of that side are followed first (of the first side, when messages
\* wait on both).
Turn(p) ==
    /\ Settled
    /\ Receiving(Peer(p)) => (Receiving(p) /\ p < Peer(p))

send_modify_lost(v) == v

\* change_tx.send_modify(|v| *v += 1): the version every receiver compares
\* with the one it has seen.
send_modify(v) == v + 1

\* The sync thread's loop taking a SyncDoc command: merge_and_notify.
CommandLoop(p) ==
    /\ Turn(p)
    /\ commandQ[p] /= <<>>
    /\ ~conn[p].guard
    /\ syncDoc' = [syncDoc EXCEPT
                      ![p] = merge_and_notify(@, Head(commandQ[p]))]
    /\ changeVer' = [changeVer EXCEPT ![p] = send_modify(@)]
    /\ commandQ' = [commandQ EXCEPT ![p] = Tail(@)]
    /\ UNCHANGED <<presenceVars, aborted>>
    /\ UNCHANGED <<store, document, nextId, active_layer, quota, last, trail,
                   undone, syncQ, eventQ, conn, wire, processed, edits, drops>>

\* The sync thread's loop taking a document from sync_rx: it goes to the
\* main thread as a RemoteChanges event.
ForwardRemote(p) ==
    /\ syncQ[p] /= <<>>
    /\ eventQ' = [eventQ EXCEPT ![p] = Append(@, Head(syncQ[p]))]
    /\ syncQ' = [syncQ EXCEPT ![p] = Tail(@)]
    /\ UNCHANGED <<presenceVars, aborted>>
    /\ UNCHANGED <<store, document, nextId, active_layer, quota, last, trail,
                   undone, syncDoc, changeVer, commandQ, conn, wire,
                   processed, edits, drops>>

\* The main loop polling a RemoteChanges event: App::merge_remote.
PollEvent(p) ==
    /\ eventQ[p] /= <<>>
    /\ \E r \in {merge(store, document[p], Head(eventQ[p]))} :
          document' = [document EXCEPT
                          ![p] = [am |-> r.am, dirty |-> r.dirty]]
    /\ eventQ' = [eventQ EXCEPT ![p] = Tail(@)]
    /\ UNCHANGED <<presenceVars, aborted>>
    /\ UNCHANGED <<store, nextId, active_layer, quota, last, trail, undone,
                   syncDoc, changeVer, commandQ, syncQ, conn, wire,
                   processed, edits, drops>>

\* A connection is opened: on both sides a task enters
\* run_bidirectional_sync.
Connect ==
    /\ Settled
    /\ aborted = {}
    /\ \A p \in Procs : conn[p].pc = "closed"
    /\ conn' = [p \in Procs |-> [conn[p] EXCEPT !.pc = "start"]]
    /\ wire' = [p \in Procs |-> <<>>]
    /\ UNCHANGED <<presenceVars, aborted>>
    /\ UNCHANGED <<store, document, nextId, active_layer, quota, last, trail,
                   undone, syncDoc, changeVer, commandQ, syncQ, eventQ,
                   processed, edits, drops>>

\* The task after send_all_sync_messages returned r: back in select!, or
\* still in the loop of send_all_sync_messages when that had not ended.
\* flushed records the document the messages were generated from.
Flushed(p, r) ==
    [conn[p] EXCEPT !.st = r.state,
                    !.pc = IF r.done THEN "select" ELSE "sending",
                    !.flushed = r.doc]

\* The first lines of run_bidirectional_sync: a fresh SyncState, a clone of
\* change_rx, and the initial send_all_sync_messages.
FreshSyncState_keep(old) == old

FreshSyncState(old) == SyncStateNew

ConnStart(p) ==
    /\ Turn(p)
    /\ conn[p].pc = "start"
    /\ \E r \in {send_all_sync_messages(store, syncDoc[p],
                                        FreshSyncState(conn[p].st),
                                        MaxFlush)} :
          /\ wire' = [wire EXCEPT ![Peer(p)] = @ \o r.frames]
          /\ conn' = [conn EXCEPT ![p] = [Flushed(p, r) EXCEPT !.seen = 0]]
    /\ UNCHANGED <<presenceVars, aborted>>
    /\ UNCHANGED <<store, document, nextId, active_layer, quota, last, trail,
                   undone, syncDoc, changeVer, commandQ, syncQ, eventQ,
                   processed, edits, drops>>

\* select!: change_rx.changed() is ready.
ConnChanged(p) ==
    /\ Turn(p)
    /\ conn[p].pc = "select"
    /\ conn[p].seen /= changeVer[p]
    /\ \E r \in {send_all_sync_messages(store, syncDoc[p], conn[p].st,
                                        MaxFlush)} :
          /\ wire' = [wire EXCEPT ![Peer(p)] = @ \o r.frames]
          /\ conn' = [conn EXCEPT
                         ![p] = [Flushed(p, r) EXCEPT !.seen = changeVer[p]]]
    /\ UNCHANGED <<presenceVars, aborted>>
    /\ UNCHANGED <<store, document, nextId, active_layer, quota, last, trail,
                   undone, syncDoc, changeVer, commandQ, syncQ, eventQ,
                   processed, edits, drops>>

\* After the answer is sent: let doc = self.inner.doc.lock().await, the
\* guard living on to the end of the arm.
LockForNotify(c) ==
    IF c.pc = "select" THEN [c EXCEPT !.pc = "notify", !.guard = TRUE] ELSE c

OnEmptyFrame_break(c) == [c EXCEPT !.pc = "closed"]

\* The arm of an empty frame: nothing to do, the loop goes on.
OnEmptyFrame(c) == c

\* select!: recv_msg has read a frame.  An empty frame is passed over; a
\* sync message is received and answered, and the task then takes the lock
\* for the document it is about to send to the main thread.
ConnRecv(p) ==
    /\ conn[p].pc = "select"
    /\ wire[p] /= <<>>
    /\ \E m \in {Head(wire[p])} :
          IF m = Sentinel
          THEN /\ wire' = [wire EXCEPT ![p] = Tail(@)]
               /\ conn' = [conn EXCEPT ![p] = OnEmptyFrame(@)]
               /\ UNCHANGED <<syncDoc, processed, syncQ>>
          ELSE decode(m) = "ok" /\
               \E r \in {receive_sync_message(store, syncDoc[p],
                                              conn[p].st, m)} :
               \E f \in {send_all_sync_messages(store, r.doc, r.state,
                                                MaxFlush)} :
                  /\ Turn(p)
                  /\ syncDoc' = [syncDoc EXCEPT ![p] = r.doc]
                  /\ wire' = [wire EXCEPT ![p] = Tail(@),
                                          ![Peer(p)] = @ \o f.frames]
                  /\ conn' = [conn EXCEPT ![p] = LockForNotify(Flushed(p, f))]
                  /\ processed' = [processed EXCEPT ![p] = @ \cup {m}]
                  /\ UNCHANGED syncQ
    /\ UNCHANGED <<presenceVars, aborted>>
    /\ UNCHANGED <<store, document, nextId, active_layer, quota, last, trail,
                   undone, changeVer, commandQ, eventQ, edits, drops>>

\* sync_tx.send(doc.clone()).await: the send waits while the channel is
\* full; the guard taken before it is dropped at the end of the arm.
ConnNotify(p) ==
    /\ conn[p].pc = "notify"
    /\ Len(syncQ[p]) < SyncChannelCap
    /\ syncQ' = [syncQ EXCEPT ![p] = Append(@, syncDoc[p])]
    /\ conn' = [conn EXCEPT ![p] = [@ EXCEPT !.pc = "select",
                                             !.guard = FALSE]]
    /\ UNCHANGED <<presenceVars, aborted>>
    /\ UNCHANGED <<store, document, nextId, active_layer, quota, last, trail,
                   undone, syncDoc, changeVer, commandQ, eventQ, wire,
                   processed, edits, drops>>

\* The connection breaks.  A task in select! may still read a frame that
\* was written before; a task that is writing ends.
Drop ==
    /\ Settled
    /\ quota > 0
    /\ quota' = quota - 1
    /\ \A p \in Procs : conn[p].pc \in {"start", "select", "sending"}
    /\ drops' = drops + 1
    /\ conn' = [p \in Procs |->
                   [conn[p] EXCEPT !.pc = IF @ = "select" THEN "broken"
                                          ELSE "closed"]]
    /\ UNCHANGED <<presenceVars, aborted>>
    /\ UNCHANGED <<store, document, nextId, active_layer, last, trail,
                   undone, syncDoc, changeVer, commandQ, syncQ, eventQ, wire,
                   processed, edits>>

\* On a broken connection recv_msg still reads a sync message; the task
\* receives it and ends when writing its answer fails, before it notifies
\* the main thread.
ConnRecvBroken(p) ==
    /\ Turn(p)
    /\ conn[p].pc = "broken"
    /\ wire[p] /= <<>>
    /\ IsMessage(Head(wire[p]))
    /\ \E r \in {receive_sync_message(store, syncDoc[p], conn[p].st,
                                      Head(wire[p]))} :
          syncDoc' = [syncDoc EXCEPT ![p] = r.doc]
    /\ processed' = [processed EXCEPT ![p] = @ \cup {Head(wire[p])}]
    /\ wire' = [wire EXCEPT ![p] = <<>>]
    /\ conn' = [conn EXCEPT ![p].pc = "closed"]
    /\ UNCHANGED <<presenceVars, aborted>>
    /\ UNCHANGED <<store, document, nextId, active_layer, quota, last, trail,
                   undone, changeVer, commandQ, syncQ, eventQ, edits, drops>>

\* On a broken connection a read or a write fails and the task ends.
ConnEnd(p) ==
    /\ Turn(p)
    /\ conn[p].pc = "broken"
    /\ wire' = [wire EXCEPT ![p] = <<>>]
    /\ conn' = [conn EXCEPT ![p].pc = "closed"]
    /\ UNCHANGED <<presenceVars, aborted>>
    /\ UNCHANGED <<store, document, nextId, active_layer, quota, last, trail,
                   undone, syncDoc, changeVer, commandQ, syncQ, eventQ,
                   processed, edits, drops>>

SyncNext ==
    \/ Connect
    \/ Drop
    \/ \E p \in Procs :
          \/ SyncAddShape(p)
          \/ SyncUpdateShape(p)
          \/ SyncDeleteShape(p)
          \/ CommandLoop(p)
          \/ ForwardRemote(p)
          \/ PollEvent(p)
          \/ ConnStart(p)
          \/ ConnChanged(p)
          \/ ConnRecv(p)
          \/ ConnNotify(p)
          \/ ConnRecvBroken(p)
          \/ ConnEnd(p)

SyncSpec == SyncInit /\ [][SyncNext]_vars

\* Both processes started from the same document file.
CommonStart == \A p \in Procs : <<BaseActor, 1>> \in document[p].am

\* Neither side has anything left to send or to hand over.
Quiescent ==
    \A p \in Procs :
       /\ conn[p].pc = "select"
       /\ conn[p].seen = changeVer[p]
       /\ wire[p] = <<>>
       /\ commandQ[p] = <<>>
       /\ syncQ[p] = <<>>
       /\ eventQ[p] = <<>>

\* Every change a message carries can be applied once the frames before it
\* have been received.
ChangesApplicable ==
    \A p \in Procs : \A i \in 1..Len(wire[p]) :
       wire[p][i] /= Sentinel =>
          \A c \in wire[p][i][4] :
             store[c].deps \subseteq
                syncDoc[p] \cup UNION {IF wire[p][j] = Sentinel THEN {}
                                       ELSE wire[p][j][4] : j \in 1..i}

\* The shapes a replica's App shows.
Shapes(p) == read_all_shapes(store, document[p].am)

\* C1: two replicas that started from a common empty document and have
\* exchanged sync messages until neither has anything left to send return
\* the same set from read_all_shapes(), whatever local edits were made and
\* in whatever order the messages were delivered.
C1_Convergence ==
    (CommonStart /\ drops = 0 /\ Quiescent) => Shapes(1) = Shapes(2)

\* Both replicas edited while disconnected, and the exchange is over.
C1_Witness ==
    /\ CommonStart /\ drops = 0 /\ Quiescent
    /\ \A p \in Procs : edits[p] /= <<>> /\ edits[p][1][4]
    /\ Cardinality(Shapes(1)) = 2

\* A adds X, B adds Y while disconnected, and these are the only edits.
TwoAdds(a) ==
    /\ \A p \in Procs : Len(edits[p]) = 1 /\ edits[p][1][1] = "add_shape"
    /\ edits[Peer(a)][1][4]

\* C2: if peer A adds shape X and peer B, while disconnected, adds shape Y,
\* then after they have synced read_all_shapes() of each peer contains X
\* and Y, each with the fields it was created with.
C2_NoEditLost ==
    \A a \in Procs :
       (TwoAdds(a) /\ Quiescent) =>
          \A p \in Procs : \A q \in Procs :
             <<edits[q][1][2], edits[q][1][3]>> \in Shapes(p)

\* C3: delivering to a replica a sync message it has already processed
\* leaves the replica's document unchanged.
C3_MessageIdempotence ==
    \A p \in Procs : \A m \in processed[p] :
       receive_sync_message(store, syncDoc[p], conn[p].st, m).doc = syncDoc[p]

\* A replica has processed a message that carried changes, and its
\* document has since grown beyond that message.
C3_Witness ==
    \E p \in Procs : \E m \in processed[p] :
       /\ m[4] /= {}
       /\ ~(syncDoc[p] \subseteq Ancestors(store, m[4]))

\* C4: after a connection was dropped and a new one opened, with a fresh
\* SyncState on each side, the two replicas hold identical documents once
\* the new connection is quiescent.
C4_ResumableSync ==
    (drops > 0 /\ Quiescent) =>
       /\ syncDoc[1] = syncDoc[2]
       /\ CommonStart => document[1].am = document[2].am

\* The connection was dropped while changes were in flight, and the new
\* connection has delivered them.
C4_Witness ==
    /\ drops > 0 /\ Quiescent /\ CommonStart
    /\ \E p \in Procs : edits[p] /= <<>>
    /\ Cardinality(Shapes(1)) = 1

(***************************************************************************)
(* GroupSpec: one replica working through the shape, group and undo API.   *)
(***************************************************************************)
\* Number of API calls explored in GroupSpec.
MaxGroupOps == 4

\* Shapes the replica of GroupSpec may add.
MaxGroupIds == 2

\* The GroupId create_group draws: distinct from every id drawn before.
FreshGroup(p) ==
    Bind(OpsOf(store, document[p].am), LAMBDA ops :
    Bind(RootObj(ops, "groups"), LAMBDA g :
        50 + Cardinality({o \in ops : g /= <<>> /\ OpObj(o) = g[1]
                                        /\ OpAct(o) = "make"})))

GroupIds == 50..(50 + MaxGroupOps)

ShapeKeys(p) == {s[1] : s \in read_all_shapes(store, document[p].am)}

GroupAddShape(p) ==
    /\ nextId[p] < MaxGroupIds
    /\ Call(p, "add_shape",
            add_shape(store, document[p], Actor(p), FreshId(p),
                      <<"Rectangle", 1, <<>>>>), <<>>)
    /\ nextId' = [nextId EXCEPT ![p] = @ + 1]
    /\ undone' = [undone EXCEPT ![p] = <<>>]
    /\ UNCHANGED <<active_layer, trail>>

TranslateShape(p) ==
    /\ \E id \in ShapeKeys(p) :
          Call(p, "translate_shape",
               translate_shape(store, document[p], Actor(p), id, 1), <<id>>)
    /\ undone' = [undone EXCEPT ![p] = <<>>]
    /\ UNCHANGED <<nextId, active_layer, trail>>

\* create_group of a set of existing shapes (in id order), or of none.
CreateGroup(p) ==
    /\ \E S \in SUBSET ShapeKeys(p) :
          Call(p, "create_group",
               create_group(store, document[p], Actor(p), FreshGroup(p),
                            SortAsc(S), <<>>), <<FreshGroup(p)>>)
    /\ undone' = [undone EXCEPT ![p] = <<>>]
    /\ UNCHANGED <<nextId, active_layer, trail>>

DeleteGroup(p) ==
    /\ \E id \in GroupIds :
          /\ id <= FreshGroup(p)
          /\ Call(p, "delete_group",
                  delete_group(store, document[p], Actor(p), id), <<id>>)
    /\ undone' = [undone EXCEPT ![p] = <<>>]
    /\ UNCHANGED <<nextId, active_layer, trail>>

GroupInit == InitShared(MaxGroupOps)

GroupNext ==
    \E p \in {1} :
       \/ GroupAddShape(p)
       \/ UpdateShape(p)
       \/ TranslateShape(p)
       \/ DeleteShape(p)
       \/ CreateGroup(p)
       \/ DeleteGroup(p)
       \/ PushUndoCheckpoint(p)
       \/ GlobalUndo(p)
       \/ GlobalRedo(p)

GroupSpec == GroupInit /\ [][GroupNext]_vars

\* The members of group G as a set ({} when G does not exist).
Members(p, G) ==
    Bind(read_group(store, document[p].am, G), LAMBDA grp :
        IF grp = <<>> THEN {} ELSE {grp[1][i] : i \in 1..Len(grp[1])})

\* C11: in every reachable state a shape s has group_id = G exactly when
\* group G exists and s is in G.members; and after delete_group(G), G is
\* absent and no shape has group_id = G.
C11_GroupConsistency ==
    \A p \in {1} :
       /\ \A s \in ShapeKeys(p) : \A G \in GroupIds :
             (get_shape_group(store, document[p].am, s) = <<G>>)
                <=> (G \in GroupKeys(store, document[p].am)
                       /\ s \in Members(p, G))
       /\ (last.op = "delete_group" /\ last.p = p /\ last.ret) =>
             /\ last.exp[1] \notin GroupKeys(store, document[p].am)
             /\ \A s \in ShapeKeys(p) :
                   get_shape_group(store, document[p].am, s) /= last.exp
(***************************************************************************)
(* OrderSpec: two replicas that loaded the same file of up to              *)
(* MaxOrderShapes shapes: the first deletes and reorders shapes and merges  *)
(* the changes of the second, which brings shapes to the front.            *)
(***************************************************************************)
\* Number of API calls explored in OrderSpec.
MaxOrderOps == 3

\* Shapes of the loaded file.
MaxOrderShapes == 3

\* The shape ids of the file's author.
OrderIds == 2..(1 + MaxOrderShapes)

\* Before the replicas load the file its author adds shapes to it.
OrderAuthorAddShape ==
    /\ Authoring
    /\ Cardinality(ShapeKeys(1)) < MaxOrderShapes
    /\ \E r \in {add_shape(store, document[1], BaseActor,
                           2 + Cardinality(ShapeKeys(1)),
                           <<"Rectangle", 0, <<>>>>)} : AuthorCall(r)

OrderLoadFile ==
    /\ Authoring
    /\ quota' = MaxOrderOps
    /\ last' = [NoCall EXCEPT !.op = "load"]
    /\ UNCHANGED <<store, document, nextId, active_layer, trail, undone,
                   syncVars>>

\* A call of the shape API that is no undo checkpoint of its own.
OrderCall(p, op, result, exp) ==
    /\ Call(p, op, result, exp)
    /\ undone' = [undone EXCEPT ![p] = <<>>]
    /\ UNCHANGED <<nextId, active_layer, trail>>

\* delete_shape of any id, present or not.
OrderDeleteShape(p) ==
    \E id \in OrderIds :
       OrderCall(p, "delete_shape",
                 delete_shape(store, document[p], Actor(p), id), <<id>>)

\* The second replica brings one shape to the front at a time.
BringToFront(p) ==
    \E S \in IF p = 1 THEN SUBSET OrderIds ELSE {{id} : id \in OrderIds} :
       OrderCall(p, "bring_to_front",
                 bring_to_front(store, document[p], Actor(p), S), <<S>>)

SendToBack(p) ==
    \E S \in SUBSET OrderIds :
       OrderCall(p, "send_to_back",
                 send_to_back(store, document[p], Actor(p), S), <<S>>)

BringForward(p) ==
    \E S \in SUBSET OrderIds :
       OrderCall(p, "bring_forward",
                 bring_forward(store, document[p], Actor(p), S), <<S>>)

SendBackward(p) ==
    \E S \in SUBSET OrderIds :
       OrderCall(p, "send_backward",
                 send_backward(store, document[p], Actor(p), S), <<S>>)

OrderInit == InitShared(0)

OrderNext ==
    \/ OrderAuthorAddShape
    \/ OrderLoadFile
    \/ \E p \in {1} :
          \/ OrderDeleteShape(p)
          \/ SendToBack(p)
          \/ BringForward(p)
          \/ SendBackward(p)
    \/ \E p \in Procs : BringToFront(p)
    \/ MergeRemote(1, 2)

OrderSpec == OrderInit /\ [][OrderNext]_vars

\* shape_order before and after the last call.
OrderBefore == read_shape_order(store, last.pre.am)

OrderAfter == read_shape_order(store, document[last.p].am)

\* C12: delete_shape(id) removes the record from shapes and the id from
\* shape_order; calling it again, or on an id that never existed (the id is
\* in neither), returns Ok and leaves shapes and shape_order unchanged.
C12_DeleteShapeIdempotent ==
    last.op = "delete_shape" =>
       /\ last.ret
       /\ last.exp[1] \notin ShapeKeys(last.p)
       /\ \A i \in 1..Len(OrderAfter) : OrderAfter[i] /= last.exp[1]
       /\ (/\ \A s \in read_all_shapes(store, last.pre.am) :
                 s[1] /= last.exp[1]
           /\ \A i \in 1..Len(OrderBefore) : OrderBefore[i] /= last.exp[1]) =>
             /\ read_all_shapes(store, document[last.p].am)
                   = read_all_shapes(store, last.pre.am)
             /\ OrderAfter = OrderBefore

\* The positions of a sequence that hold an id of S, in increasing order.
SelPos(seq, S) ==
    SelectSeq([i \in 1..Len(seq) |-> i], LAMBDA i : seq[i] \in S)

\* The ids of S / not of S in a sequence, in their order.
Sel(seq, S) == SelectSeq(seq, LAMBDA id : id \in S)

Rest(seq, S) == SelectSeq(seq, LAMBDA id : id \notin S)

\* C13: bring_to_front(S) and send_to_back(S) are absolute moves:
\* afterwards the ids of S that are in shape_order occupy its last (resp.
\* first) positions in their previous relative order, all other ids keep
\* their relative order, and no id is added or dropped; with an empty S the
\* document, including the dirty flag, is unchanged.
C13_AbsoluteMoves ==
    last.op \in {"bring_to_front", "send_to_back"} =>
       /\ last.ret
       /\ Len(OrderAfter) = Len(OrderBefore)
       /\ Sel(OrderAfter, last.exp[1]) = Sel(OrderBefore, last.exp[1])
       /\ Rest(OrderAfter, last.exp[1]) = Rest(OrderBefore, last.exp[1])
       /\ \A i \in 1..Len(OrderAfter) : \A j \in 1..Len(OrderAfter) :
             (OrderAfter[i] \in last.exp[1] /\ OrderAfter[j] \notin last.exp[1])
                => IF last.op = "bring_to_front" THEN j < i ELSE i < j
       /\ last.exp[1] = {} => document[last.p] = last.pre

\* On a 3-shape document whose middle shape was brought to the front,
\* send_to_back of that shape has put it at index 0.
C13_Witness ==
    /\ last.op = "send_to_back"
    /\ last.exp = <<{3}>>
    /\ OrderBefore = <<2, 4, 3>>
    /\ OrderAfter = <<3, 2, 4>>

\* C14: bring_forward(S) / send_backward(S) move each selected id by at
\* most one position in the move direction: a selected id whose neighbour
\* in that direction is unselected swaps with it, a selected id at the top
\* (resp. bottom) or behind a block of selected ids that reaches the top
\* (resp. bottom) stays put, and the relative order among selected ids is
\* preserved; bring_forward on the topmost shape leaves shape_order
\* unchanged.
C14_SingleStepMoves ==
    last.op \in {"bring_forward", "send_backward"} =>
       LET S == last.exp[1]
           old == OrderBefore
           new == OrderAfter
           po == SelPos(old, S)
           pn == SelPos(new, S)
           dir == IF last.op = "bring_forward" THEN 1 ELSE -1
           Beyond(i) == IF dir = 1 THEN (i + 1)..Len(old) ELSE 1..(i - 1)
       IN /\ last.ret
          /\ Len(new) = Len(old)
          /\ \A x \in OrderIds :
                Len(Sel(new, {x})) = Len(Sel(old, {x}))
          /\ Sel(new, S) = Sel(old, S)
          /\ \A k \in 1..Len(po) :
                /\ pn[k] \in {po[k], po[k] + dir}
                /\ (Beyond(po[k]) /= {} /\ old[po[k] + dir] \notin S)
                      => pn[k] = po[k] + dir
                /\ (\A j \in Beyond(po[k]) : old[j] \in S) => pn[k] = po[k]
          /\ (last.op = "bring_forward" /\ po = <<Len(old)>>) => new = old

\* A block of two selected shapes below an unselected one has moved up by
\* one position, the unselected shape going below the block.
C14_Witness ==
    /\ last.op = "bring_forward"
    /\ last.exp = <<{2, 3}>>
    /\ OrderBefore = <<2, 3, 4>>
    /\ OrderAfter = <<4, 2, 3>>

(***************************************************************************)
(* CodecSpec: one replica writing shape kinds of every variant, coordinate *)
(* and text of the bounds below with add_shape and update_shape, which     *)
(* encode with write_shape_kind; read_all_shapes decodes with              *)
(* read_shape_kind.                                                        *)
(***************************************************************************)
\* Number of API calls explored in CodecSpec.
MaxCodecOps == 2

\* Greatest length of a label or text content.
MaxTextLen == 2

\* Greatest absolute value of a coordinate.
MaxCoord == 1

\* The strings of at most MaxTextLen characters over a letter and the quote.
CodecStrings ==
    UNION {[1..n -> {"a", QUOTE}] : n \in 0..MaxTextLen}

CodecKinds ==
    {<<"Rectangle", x, l>> : x \in (-MaxCoord)..MaxCoord,
                             l \in {<<>>} \cup {<<s>> : s \in CodecStrings}}
       \cup {<<"Text", x, <<s>>>> : x \in (-MaxCoord)..MaxCoord,
                                    s \in CodecStrings}

CodecAddShape(p) ==
    /\ nextId[p] < MaxIds
    /\ \E kind \in CodecKinds :
          Call(p, "add_shape",
               add_shape(store, document[p], Actor(p), FreshId(p), kind),
               <<FreshId(p), kind>>)
    /\ nextId' = [nextId EXCEPT ![p] = @ + 1]
    /\ undone' = [undone EXCEPT ![p] = <<>>]
    /\ UNCHANGED <<active_layer, trail>>

CodecUpdateShape(p) ==
    /\ \E id \in ShapeKeys(p), kind \in CodecKinds :
          Call(p, "update_shape",
               update_shape(store, document[p], Actor(p), id, kind),
               <<id, kind>>)
    /\ undone' = [undone EXCEPT ![p] = <<>>]
    /\ UNCHANGED <<nextId, active_layer, trail>>

CodecInit == InitShared(MaxCodecOps)

CodecNext == \E p \in {1} : CodecAddShape(p) \/ CodecUpdateShape(p)

CodecSpec == CodecInit /\ [][CodecNext]_vars

\* C15: for every shape-kind variant and every value of its fields,
\* writing the record with write_shape_kind and reading it back with
\* read_shape_kind returns a record equal to the original in every field.
C15_CodecRoundTrip ==
    (last.op \in {"add_shape", "update_shape"} /\ last.ret) =>
       <<last.exp[1], last.exp[2]>>
          \in read_all_shapes(store, document[last.p].am)

(***************************************************************************)
(* Presence: PresenceManager and the prune tick of run_app.  An Instant   *)
(* is kept as the age of the entry in whole seconds; ages are cut off at  *)
(* MaxAge, which lies beyond STALE_THRESHOLD.                              *)
(***************************************************************************)
STALE_THRESHOLD == 5

PRUNE_INTERVAL == 1

MaxAge == 6

MaxElapsed == 2

MaxCursor == 1

local_peer_id == "local"

PeerIds == {"local", "p1", "p2"}

\* A PeerPresence is <<peer_id, cursor_pos, activity>>, and an entry of
\* the manager a presence with the age of its Instant.
PeerPresences ==
    ({"p1"} \X (0..MaxCursor) \X {"Idle", "Typing"})
       \cup {<<q, 0, "Idle">> : q \in PeerIds}

Entry(pr, age) == [presence |-> pr, age |-> age]

update_peer_patch(ps, pr) ==
    IF pr[1] # local_peer_id
    THEN [r \in DOMAIN ps \cup {pr[1]} |->
             IF r # pr[1] THEN ps[r]
             ELSE IF r \in DOMAIN ps
                  THEN Entry(<<pr[1], pr[2], ps[r].presence[3]>>, 0)
                  ELSE Entry(pr, 0)]
    ELSE ps

\* PresenceManager::update_peer: our own presence is not stored.
update_peer(ps, pr) ==
    IF pr[1] # local_peer_id
    THEN [r \in DOMAIN ps \cup {pr[1]} |->
             IF r = pr[1] THEN Entry(pr, 0) ELSE ps[r]]
    ELSE ps

\* PresenceManager::remove_peer
remove_peer(ps, q) == [r \in DOMAIN ps \ {q} |-> ps[r]]

prune_stale_inclusive(ps) ==
    [r \in {q \in DOMAIN ps : ps[q].age <= STALE_THRESHOLD} |-> ps[r]]

\* PresenceManager::prune_stale: retain the entries whose age is below the
\* threshold.
prune_stale(ps) ==
    [r \in {q \in DOMAIN ps : ps[q].age < STALE_THRESHOLD} |-> ps[r]]

\* PresenceManager::active_peers
active_peers(ps) == {ps[q].presence : q \in DOMAIN ps}

\* run_sync: the event a presence message becomes for the main thread.
presence_event(msg) ==
    IF msg[1] = "Update" THEN <<"PresenceUpdate", msg[2]>>
    ELSE IF msg[1] = "Leave" THEN <<"PresenceRemoved", msg[2]>>
    ELSE <<>>

\* run_app: what the main loop does to the manager on a presence event.
on_presence_event(ps, ev) ==
    IF ev = <<>> THEN ps
    ELSE IF ev[1] = "PresenceUpdate" THEN update_peer(ps, ev[2])
    ELSE remove_peer(ps, ev[2])

PresenceCall(op, ps, elapsed, exp) ==
    /\ peers' = ps
    /\ last_stale_prune' = elapsed
    /\ last' = [op |-> op, p |-> 1, ret |-> TRUE, pre |-> document[1],
                exp |-> exp]
    /\ UNCHANGED <<store, document, nextId, active_layer, quota, trail, undone,
                   syncDoc, changeVer, commandQ, syncQ, eventQ, conn, wire,
                   processed, edits, drops, aborted, netVars, diskVars>>

\* One second passes: every Instant is one second older.
Tick ==
    /\ peers' = [q \in DOMAIN peers |->
                    IF peers[q].age < MaxAge
                    THEN [peers[q] EXCEPT !.age = @ + 1] ELSE peers[q]]
    /\ last_stale_prune' = IF last_stale_prune < MaxElapsed
                           THEN last_stale_prune + 1 ELSE last_stale_prune
    /\ last' = [NoCall EXCEPT !.op = "tick"]
    /\ UNCHANGED <<store, document, nextId, active_layer, quota, trail,
                   undone, syncDoc, changeVer, commandQ, syncQ, eventQ, conn,
                   wire, processed, edits, drops, aborted, netVars, diskVars>>

\* An Update of a peer reaches the main loop as SyncEvent::PresenceUpdate.
UpdatePeer(pr) ==
    PresenceCall("update_peer",
                 on_presence_event(peers, presence_event(<<"Update", pr>>)),
                 last_stale_prune, <<pr[1], peers, pr>>)

\* A Leave of a peer reaches the main loop as SyncEvent::PresenceRemoved.
RemovePeer(q) ==
    PresenceCall("remove_peer",
                 on_presence_event(peers, presence_event(<<"Leave", q>>)),
                 last_stale_prune, <<q, peers>>)

\* A RequestAll of a peer is not passed on to the main loop.
RequestAllSeen ==
    /\ last.op # "request_all"
    /\ PresenceCall("request_all",
                    on_presence_event(peers, presence_event(<<"RequestAll">>)),
                    last_stale_prune, <<"", peers>>)

\* run_app: prune_stale() once a second has passed since the last one.
PruneTick ==
    /\ last_stale_prune >= PRUNE_INTERVAL
    /\ PresenceCall("prune_stale", prune_stale(peers), 0, <<"", peers>>)

PresenceInit == InitShared(0)

PresenceNext ==
    \/ Tick
    \/ PruneTick
    \/ \E pr \in PeerPresences : UpdatePeer(pr)
    \/ \E q \in PeerIds : RemovePeer(q)
    \/ RequestAllSeen

PresenceSpec == PresenceInit /\ [][PresenceNext]_vars

\* The main loop polls the terminal with a 16 ms timeout, so it comes back
\* to the prune check however little traffic there is; time passes.
PresenceFairSpec == PresenceSpec /\ WF_vars(Tick) /\ WF_vars(PruneTick)

PruneKeepsFresh ==
    last.op = "prune_stale" =>
       /\ \A pr \in active_peers(peers) :
             last.exp[2][pr[1]].age < STALE_THRESHOLD
       /\ \A q \in DOMAIN last.exp[2] :
             last.exp[2][q].age < STALE_THRESHOLD
                => last.exp[2][q].presence \in active_peers(peers)

\* C16: right after prune_stale() no peer whose last update is 5 seconds
\* old or older is returned by active_peers() and every peer updated less
\* than 5 seconds ago still is; a peer that has gone silent is eventually
\* removed (or heard from again).
C16_PresenceStaleness ==
    /\ []PruneKeepsFresh
    /\ \A q \in PeerIds \ {local_peer_id} :
          (q \in DOMAIN peers /\ peers[q].age >= 1)
             ~> (q \notin DOMAIN peers \/ peers[q].age = 0)

C16_Witness ==
    /\ last.op = "prune_stale"
    /\ \E q \in DOMAIN last.exp[2] :
          last.exp[2][q].presence \notin active_peers(peers)
    /\ \E q \in DOMAIN last.exp[2] :
          last.exp[2][q].presence \in active_peers(peers)

(***************************************************************************)
(* Frames of the document-sync stream (SyncSpec).                          *)
(***************************************************************************)
\* The frames written to the stream towards q in a step.
Written(q) ==
    IF Len(wire'[q]) > Len(wire[q])
    THEN SubSeq(wire'[q], Len(wire[q]) + 1, Len(wire'[q]))
    ELSE <<>>

\* frames is a run of sync messages closed by one empty frame.
EndsWithOneSentinel(frames) ==
    /\ frames /= <<>>
    /\ frames[Len(frames)] = Sentinel
    /\ \A i \in 1..(Len(frames) - 1) : frames[i] /= Sentinel

\* The task of p leaves send_all_sync_messages in this step.
FlushReturns(p) ==
    /\ conn'[p].pc \in {"select", "notify"}
    /\ \/ conn[p].pc = "start"
       \/ conn[p].pc = "select" /\ conn'[p] /= conn[p]
       \/ conn[p].pc = "select" /\ Written(Peer(p)) /= <<>>

\* C17: the first step of a connection task is the flush for a fresh
\* SyncState - every message the generator yields, then one empty frame -
\* taken before the task reads a frame or sees a change wakeup; and every
\* flush, the first and the later ones, ends with exactly one empty frame.
C17_FlushEndsWithSentinel ==
    [][\A p \in Procs :
          /\ FlushReturns(p) => EndsWithOneSentinel(Written(Peer(p)))
          /\ (conn[p].pc = "start" /\ conn'[p].pc \notin {"start", "closed"}) =>
                /\ Written(Peer(p)) =
                      send_all_sync_messages(store, syncDoc[p], SyncStateNew,
                                             MaxFlush).frames
                /\ wire'[p] = wire[p]
                /\ syncDoc'[p] = syncDoc[p]
                /\ processed'[p] = processed[p]
                /\ conn'[p].seen = 0
          /\ (conn[p].pc = "start" /\ conn'[p].pc = "start") =>
                /\ Len(wire'[p]) >= Len(wire[p])
                /\ processed'[p] = processed[p]]_vars

C17_Witness ==
    \E p \in Procs :
       /\ conn[p].pc = "select"
       /\ Len(wire[Peer(p)]) = 2
       /\ wire[Peer(p)][1] /= Sentinel
       /\ wire[Peer(p)][2] = Sentinel
       /\ wire[p] /= <<>>
       /\ conn[p].seen /= changeVer[p]
       /\ processed[p] = {}

\* The task of p reads an empty frame in this step.
ReadsEmptyFrame(p) ==
    /\ conn[p].pc = "select"
    /\ wire[p] /= <<>>
    /\ Head(wire[p]) = Sentinel
    /\ wire'[p] = Tail(wire[p])

\* C18: reading a zero-length frame leaves the shared document and the
\* SyncState as they are and the task in its select! loop, where it goes
\* on to read frames and to see change wakeups.
C18_EmptyFrameHarmless ==
    [][\A p \in Procs :
          ReadsEmptyFrame(p) =>
             /\ conn'[p] = conn[p]
             /\ syncDoc' = syncDoc
             /\ document' = document
             /\ processed' = processed
             /\ wire'[Peer(p)] = wire[Peer(p)]
             /\ <<syncQ', eventQ', commandQ', changeVer'>>
                   = <<syncQ, eventQ, commandQ, changeVer>>]_vars

\* A task that has read an empty frame and then a message and a wakeup.
C18_Witness ==
    \E p \in Procs :
       /\ conn[p].pc = "select"
       /\ Cardinality(processed[p]) >= 2
       /\ changeVer[p] > 0
       /\ conn[p].seen = changeVer[p]
       /\ wire[p] = <<>>

\* C19: between two steps of a connection task - where the task is
\* suspended at an await - it holds no guard of the shared document.
C19_LockDiscipline == \A p \in Procs : ~conn[p].guard

(***************************************************************************)
(* Failures of one connection (FaultSpec): SyncSpec with frames that are   *)
(* not sync messages.                                                      *)
(***************************************************************************)
\* A frame that is not a sync message arrives on the stream of p.
BadFrame(p) ==
    /\ Settled
    /\ quota > 0
    /\ quota' = quota - 1
    /\ \A q \in Procs : conn[q].pc = "select"
    /\ \E f \in {Undecodable, Oversized} :
          wire' = [wire EXCEPT ![p] = Append(@, f)]
    /\ UNCHANGED <<presenceVars, aborted>>
    /\ UNCHANGED <<store, document, nextId, active_layer, last, trail, undone,
                   syncDoc, changeVer, commandQ, syncQ, eventQ, conn,
                   processed, edits, drops>>

\* The task of p returns or panics: its streams are dropped, and the reads
\* and writes of the peer's task fail from then on.
TaskEnds(p) ==
    [q \in Procs |->
        [conn[q] EXCEPT !.pc = IF q = p THEN "closed"
                               ELSE IF @ \in {"select", "broken"} THEN "broken"
                               ELSE "closed"]]

\* select!: recv_msg meets a frame that is not a sync message.  A failed
\* allocation aborts the process, whose queues go with it; a panic or the
\* Err of decode ends the task.
ConnRecvBad(p) ==
    /\ Turn(p)
    /\ conn[p].pc \in {"select", "broken"}
    /\ wire[p] /= <<>>
    /\ Head(wire[p]) /= Sentinel
    /\ \E out \in recv_msg(Head(wire[p])) :
          /\ out = "ok" => decode(Head(wire[p])) = "err"
          /\ IF out = "abort"
             THEN /\ aborted' = aborted \cup {p}
                  /\ commandQ' = [commandQ EXCEPT ![p] = <<>>]
                  /\ syncQ' = [syncQ EXCEPT ![p] = <<>>]
                  /\ eventQ' = [eventQ EXCEPT ![p] = <<>>]
             ELSE UNCHANGED <<aborted, commandQ, syncQ, eventQ>>
    /\ conn' = TaskEnds(p)
    /\ wire' = [wire EXCEPT ![p] = <<>>]
    /\ UNCHANGED presenceVars
    /\ UNCHANGED <<store, document, nextId, active_layer, quota, last, trail,
                   undone, syncDoc, changeVer, processed, edits, drops>>

FaultInit ==
    /\ store = BaseDoc.store
    /\ document = [p \in Procs |-> [am |-> BaseDoc.am, dirty |-> FALSE]]
    /\ nextId = [p \in Procs |-> 0]
    /\ active_layer = [p \in Procs |-> <<>>]
    /\ quota = MaxFaultEvents
    /\ last = NoCall
    /\ trail = [p \in Procs |-> <<>>]
    /\ undone = [p \in Procs |-> <<>>]
    /\ SyncOff

FaultNext ==
    \/ SyncNext
    \/ \E p \in Procs : BadFrame(p) \/ ConnRecvBad(p)

FaultSpec == FaultInit /\ [][FaultNext]_vars

\* The task of p ends in this step on a frame that is not a sync message
\* or on a failed read or write.
TaskFails(p) ==
    /\ conn[p].pc \in {"select", "broken"}
    /\ conn'[p].pc = "closed"

\* C20: when the task of a connection ends on an undecodable frame or a
\* transport error, nothing but that task ends - the process and its
\* command loop live on -, the failed frame leaves the shared document as
\* it was and the lock is not left held; and the processes still converge
\* over a later connection.
C20_FailureIsolation ==
    /\ [][\A p \in Procs :
             TaskFails(p) =>
                /\ aborted' = aborted
                /\ ~conn'[p].guard
                /\ (wire[p] /= <<>> /\ ~IsMessage(Head(wire[p])))
                      => syncDoc' = syncDoc
                /\ <<commandQ', syncQ', eventQ', changeVer', document'>>
                      = <<commandQ, syncQ, eventQ, changeVer, document>>]_vars
    /\ [](Quiescent =>
            /\ syncDoc[1] = syncDoc[2]
            /\ read_all_shapes(store, document[1].am)
                  = read_all_shapes(store, document[2].am))

(***************************************************************************)
(* Wakeups of the connection tasks (SyncFairSpec).                         *)
(***************************************************************************)
\* The runtime runs every task that is ready, and the main loop polls its
\* events on every round.
WakeInit ==
    /\ store = BaseDoc.store
    /\ document = [p \in Procs |-> [am |-> BaseDoc.am, dirty |-> FALSE]]
    /\ nextId = [p \in Procs |-> 0]
    /\ active_layer = [p \in Procs |-> <<>>]
    /\ quota = MaxSyncEvents
    /\ last = NoCall
    /\ trail = [p \in Procs |-> <<>>]
    /\ undone = [p \in Procs |-> <<>>]
    /\ SyncOff

SyncFairSpec ==
    /\ WakeInit
    /\ [][SyncNext]_vars
    /\ \A p \in Procs :
          /\ WF_vars(ConnStart(p))
          /\ WF_vars(ConnChanged(p))
          /\ WF_vars(ConnRecv(p))
          /\ WF_vars(ConnNotify(p))
          /\ WF_vars(ForwardRemote(p))
          /\ WF_vars(PollEvent(p))

\* The task of p runs on a connection that is up.
TaskOpen(p) == conn[p].pc \in {"start", "select", "notify", "sending"}

\* The last flush of p was generated from all that the shared document
\* holds now.
FlushUpToDate(p) == syncDoc[p] \subseteq conn[p].flushed

C24_ManagerState ==
    /\ local_peer_id \notin DOMAIN peers
    /\ \A q \in DOMAIN peers : peers[q].presence[1] = q
    /\ Cardinality(active_peers(peers)) = Cardinality(DOMAIN peers)
    /\ last.op = "update_peer" =>
          /\ last.exp[1] # local_peer_id =>
                /\ DOMAIN peers = DOMAIN last.exp[2] \cup {last.exp[1]}
                /\ peers[last.exp[1]] = Entry(last.exp[3], 0)
          /\ last.exp[1] = local_peer_id => peers = last.exp[2]
          /\ \A q \in DOMAIN last.exp[2] \ {last.exp[1]} :
                peers[q] = last.exp[2][q]
    /\ last.op = "remove_peer" =>
          /\ last.exp[1] \notin DOMAIN peers
          /\ \A q \in DOMAIN last.exp[2] \ {last.exp[1]} :
                q \in DOMAIN peers /\ peers[q] = last.exp[2][q]
    /\ last.op = "request_all" => peers = last.exp[2]

\* An Update has replaced an older presence of the same peer that differed
\* in both fields.
C24_Witness ==
    /\ last.op = "update_peer"
    /\ last.exp[1] \in DOMAIN last.exp[2]
    /\ last.exp[2][last.exp[1]].age > 0
    /\ last.exp[2][last.exp[1]].presence[2] # last.exp[3][2]
    /\ last.exp[2][last.exp[1]].presence[3] # last.exp[3][3]

(***************************************************************************)
(* The presence protocol (PresenceNetSpec): two processes and the          *)
(* presence connection between them.  A message is <<"Update", presence>>, *)
(* <<"Leave", peer_id>> or <<"RequestAll">>.                               *)
(***************************************************************************)
\* broadcast() calls explored.
MaxBroadcasts == 3

\* Messages a subscriber of the broadcast channel may fall behind by.
MaxLagBuf == 1

RequestAll == <<"RequestAll">>

PeerIdOf(p) == IF p = 1 THEN "p1" ELSE "p2"

\* The presences process p may broadcast.
OwnPresences(p) == {<<PeerIdOf(p), c, "Idle">> : c \in 0..MaxCursor}

\* local_presence.try_write(): the stored presence is replaced unless a
\* reader holds the lock.
try_write(held, stored, pr) == IF held THEN stored ELSE <<pr>>

\* outgoing_tx.send(msg) as one subscriber sees it: once the buffer is
\* full the oldest message is overwritten and the subscriber lags.
broadcast_send(rx, msg) ==
    IF Len(rx.q) < MaxLagBuf THEN [rx EXCEPT !.q = Append(@, msg)]
    ELSE [q |-> Append(Tail(rx.q), msg), lagged |-> TRUE]

on_request_all_silent(stored) == <<>>

\* The answer to RequestAll: the current local presence, if there is one.
on_request_all(stored) ==
    IF stored # <<>> THEN <<<<"Update", stored[1]>>>> ELSE <<>>

\* What no step of the presence protocol touches.
CoreFrame ==
    UNCHANGED <<store, document, nextId, active_layer, last, trail, undone,
                syncDoc, changeVer, commandQ, eventQ, wire, processed, edits,
                drops, aborted, peers, last_stale_prune, diskVars>>

NetFrame == CoreFrame /\ UNCHANGED <<conn, syncQ, sync_thread, events>>

\* The tasks of p run while run_sync of p is at an await.
Runnable(p) == sync_thread[p].pc \in {"ready", "loop", "stopping"}

\* The presence task of p holds the read guard of local_presence: it is
\* in send_presence_msg inside `if let Some(..) = ..read().await.as_ref()`.
Holding(p) == ptask[p].pc = "holding"

\* A presence connection is opened: a task is spawned on both sides.
PConnect ==
    /\ \A p \in Procs : ptask[p].pc = "closed"
    /\ ptask' = [p \in Procs |-> [NoTask EXCEPT !.pc = "start"]]
    /\ pwire' = [p \in Procs |-> <<>>]
    /\ incoming' = [p \in Procs |-> <<>>]
    /\ UNCHANGED <<local_presence, latest, outgoing_rx, quota>>
    /\ NetFrame

\* The first lines of run_presence_sync: subscribe, then send RequestAll.
PStart(p) ==
    /\ ptask[p].pc = "start"
    /\ Runnable(p)
    /\ outgoing_rx' = [outgoing_rx EXCEPT ![p] = [q |-> <<>>, lagged |-> FALSE]]
    /\ pwire' = [pwire EXCEPT ![Peer(p)] = Append(@, RequestAll)]
    /\ ptask' = [ptask EXCEPT ![p].pc = "select"]
    /\ UNCHANGED <<local_presence, latest, incoming, quota>>
    /\ NetFrame

\* PresenceProtocol::broadcast, called by the command loop.
PBroadcast(p) ==
    /\ sync_thread[p].pc = "loop"
    /\ quota > 0
    /\ quota' = quota - 1
    /\ \E pr \in OwnPresences(p) :
          /\ local_presence' = [local_presence EXCEPT
                                   ![p] = try_write(Holding(p), @, pr)]
          /\ latest' = [latest EXCEPT ![p] = <<pr>>]
          /\ outgoing_rx' =
                IF ptask[p].pc \in {"select", "holding"}
                THEN [outgoing_rx EXCEPT
                         ![p] = broadcast_send(@, <<"Update", pr>>)]
                ELSE outgoing_rx
    /\ UNCHANGED <<ptask, pwire, incoming>>
    /\ NetFrame

\* select!: outgoing_rx.recv() is ready - with a message, which is sent,
\* or with Lagged, after which the stored presence is read and sent.
POutgoing(p) ==
    /\ ptask[p].pc = "select"
    /\ Runnable(p)
    /\ IF outgoing_rx[p].lagged
       THEN /\ outgoing_rx' = [outgoing_rx EXCEPT ![p].lagged = FALSE]
            /\ ptask' = IF local_presence[p] # <<>>
                        THEN [ptask EXCEPT
                                 ![p] = [pc |-> "holding",
                                         pending |-> <<"Update",
                                                       local_presence[p][1]>>,
                                         fwd |-> <<>>, why |-> "lag"]]
                        ELSE ptask
            /\ UNCHANGED pwire
       ELSE /\ outgoing_rx[p].q # <<>>
            /\ pwire' = [pwire EXCEPT
                            ![Peer(p)] = Append(@, Head(outgoing_rx[p].q))]
            /\ outgoing_rx' = [outgoing_rx EXCEPT ![p].q = Tail(@)]
            /\ UNCHANGED ptask
    /\ UNCHANGED <<local_presence, latest, incoming, quota>>
    /\ NetFrame

\* select!: recv_presence_msg has read a message.  RequestAll is answered
\* first when there is a local presence; the message then goes on to the
\* main thread.
PRecv(p) ==
    /\ ptask[p].pc = "select"
    /\ Runnable(p)
    /\ pwire[p] # <<>>
    /\ pwire' = [pwire EXCEPT ![p] = Tail(@)]
    /\ \E m \in {Head(pwire[p])} :
       \E reply \in {IF m = RequestAll THEN on_request_all(local_presence[p])
                     ELSE <<>>} :
          IF reply # <<>>
          THEN /\ ptask' = [ptask EXCEPT
                               ![p] = [pc |-> "holding", pending |-> reply[1],
                                       fwd |-> <<m>>, why |-> "reply"]]
               /\ UNCHANGED incoming
          ELSE /\ incoming' = [incoming EXCEPT ![p] = Append(@, m)]
               /\ UNCHANGED ptask
    /\ UNCHANGED <<local_presence, latest, outgoing_rx, quota>>
    /\ NetFrame

\* send_presence_msg of the stored presence returns; the read guard goes
\* at the end of the if let.
PSendDone(p) ==
    /\ Holding(p)
    /\ Runnable(p)
    /\ pwire' = [pwire EXCEPT ![Peer(p)] = Append(@, ptask[p].pending)]
    /\ incoming' = [incoming EXCEPT ![p] = @ \o ptask[p].fwd]
    /\ ptask' = [ptask EXCEPT ![p] = [NoTask EXCEPT !.pc = "select"]]
    /\ UNCHANGED <<local_presence, latest, outgoing_rx, quota>>
    /\ NetFrame

PresenceNetInit == InitShared(MaxBroadcasts)

PresenceNetNext ==
    \/ PConnect
    \/ \E p \in Procs :
          \/ PStart(p)
          \/ PBroadcast(p)
          \/ POutgoing(p)
          \/ PRecv(p)
          \/ PSendDone(p)

PresenceNetSpec == PresenceNetInit /\ [][PresenceNetNext]_vars

\* The runtime runs every presence task that is ready.
PresenceNetFairSpec ==
    /\ PresenceNetSpec
    /\ \A p \in Procs :
          /\ WF_vars(PStart(p))
          /\ WF_vars(POutgoing(p))
          /\ WF_vars(PRecv(p))
          /\ WF_vars(PSendDone(p))

\* An Update of process p has been passed on to the main thread of q.
Delivered(p, q) ==
    \E i \in 1..Len(incoming[q]) :
       incoming[q][i][1] = "Update" /\ incoming[q][i][2][1] = PeerIdOf(p)

\* C22: the first message a side writes on a presence connection is
\* RequestAll; a side that reads RequestAll and has a local presence
\* answers with an Update of that presence; so a side that had broadcast
\* before the connection gets its presence to the other side.
C22_PresenceHandshake ==
    /\ [][\A p \in Procs :
             /\ ptask[p].pc = "start" =>
                   \/ pwire'[Peer(p)] = pwire[Peer(p)] /\ ptask'[p].pc = "start"
                   \/ pwire'[Peer(p)] = Append(pwire[Peer(p)], RequestAll)
             /\ (/\ ptask[p].pc = "select"
                 /\ pwire[p] # <<>>
                 /\ Head(pwire[p]) = RequestAll
                 /\ pwire'[p] = Tail(pwire[p])
                 /\ local_presence[p] # <<>>) =>
                   /\ Holding(p)'
                   /\ ptask'[p].pending = <<"Update", local_presence[p][1]>>
             /\ (Holding(p) /\ ~Holding(p)') =>
                   pwire'[Peer(p)] = Append(pwire[Peer(p)], ptask[p].pending)
          ]_vars
    /\ \A p \in Procs :
          (ptask[p].pc = "start" /\ local_presence[p] # <<>>)
             ~> Delivered(p, Peer(p))

\* The presence of a side that broadcast before the connection and not
\* since has reached the other side.
C22_Witness ==
    \E p \in Procs :
       /\ Delivered(p, Peer(p))
       /\ outgoing_rx[p] = [q |-> <<>>, lagged |-> FALSE]
       /\ quota = MaxBroadcasts - 1
       /\ pwire[Peer(p)] = <<>>

\* C23: the Update a lagging connection sends carries the presence of the
\* most recent broadcast() call.
C23_LagRecovery ==
    [][\A p \in Procs :
          (~Holding(p) /\ Holding(p)' /\ ptask'[p].why = "lag") =>
             ptask'[p].pending = <<"Update", latest[p][1]>>]_vars

(***************************************************************************)
(* The sync core (CoreSpec): run_sync of two processes from the start of   *)
(* the sync thread to its end.  An event is <<"Ready", ticket, peer_id>>,  *)
(* <<"RemoteChanges">>, <<"PresenceUpdate", presence>>,                    *)
(* <<"PresenceRemoved", peer_id>> or <<"Error">>.                          *)
(***************************************************************************)
\* Documents handed over by connection tasks plus broadcast() calls.
MaxCoreEvents == 2

Modes == {"Disabled", "Host", "Join"}

\* The two processes are alike: a join ticket is given to the first only.
ModesOf(p) == IF p = 1 THEN Modes ELSE Modes \ {"Join"}

TicketOf(p) == <<"irohscii1", p>>

EventKind(e) == e[1]

startup_events_twice(p) ==
    <<<<"Ready", TicketOf(p), PeerIdOf(p)>>, <<"Ready", TicketOf(p), PeerIdOf(p)>>>>

\* What run_sync sends between binding the endpoint and matching the mode.
startup_events(p) == <<<<"Ready", TicketOf(p), PeerIdOf(p)>>>>

after_shutdown_hasty(pc) == "stopping"

\* The statements of the Shutdown arm in order: broadcast_leave(), then
\* the abort() of the handles and break.
after_shutdown(pc) == IF pc = "loop" THEN "left" ELSE "stopping"

\* main: the sync thread is started unless the mode is Disabled.
MainStart(p) ==
    /\ sync_thread[p].pc = "off"
    /\ sync_thread[p].mode = ""
    /\ \E mode \in ModesOf(p) :
          sync_thread' = [sync_thread EXCEPT
                             ![p].mode = mode,
                             ![p].pc = IF mode = "Disabled" THEN "off"
                                       ELSE "binding"]
    /\ UNCHANGED <<local_presence, latest, outgoing_rx, ptask, pwire,
                   incoming, events, conn, syncQ, quota>>
    /\ CoreFrame

\* Endpoint::bind: on failure run_sync returns and the thread reports an
\* Error; on success the router starts and Ready is sent.
EndpointBind(p) ==
    /\ sync_thread[p].pc = "binding"
    /\ \E ok \in BOOLEAN :
          IF ok
          THEN /\ events' = [events EXCEPT ![p] = @ \o startup_events(p)]
               /\ sync_thread' = [sync_thread EXCEPT ![p].pc = "ready",
                                                     ![p].bound = TRUE]
          ELSE /\ events' = [events EXCEPT ![p] = Append(@, <<"Error">>)]
               /\ sync_thread' = [sync_thread EXCEPT ![p].pc = "failed"]
    /\ UNCHANGED <<local_presence, latest, outgoing_rx, ptask, pwire,
                   incoming, conn, syncQ, quota>>
    /\ CoreFrame

\* Active mode without a join ticket: straight into the loop.
EnterLoop(p) ==
    /\ sync_thread[p].pc = "ready"
    /\ sync_thread[p].mode = "Host"
    /\ sync_thread' = [sync_thread EXCEPT ![p].pc = "loop"]
    /\ UNCHANGED <<local_presence, latest, outgoing_rx, ptask, pwire,
                   incoming, events, conn, syncQ, quota>>
    /\ CoreFrame

\* Active mode with a join ticket: both connects succeed.  The joining
\* side spawns its two tasks and keeps their handles; the router of the
\* other side spawns the accepting tasks.
JoinPeer(p) ==
    /\ sync_thread[p].pc = "ready"
    /\ sync_thread[p].mode = "Join"
    /\ Runnable(Peer(p))
    /\ \A q \in Procs : ptask[q].pc = "closed" /\ conn[q].pc = "closed"
    /\ sync_thread' = [sync_thread EXCEPT ![p].pc = "loop",
                                          ![p].joined = TRUE]
    /\ ptask' = [q \in Procs |-> [NoTask EXCEPT !.pc = "start"]]
    /\ conn' = [q \in Procs |-> [conn[q] EXCEPT !.pc = "select"]]
    /\ pwire' = [q \in Procs |-> <<>>]
    /\ UNCHANGED <<local_presence, latest, outgoing_rx, incoming, events,
                   syncQ, quota>>
    /\ CoreFrame

\* All the tasks of p go: the handles are aborted, or the router shuts
\* down and the runtime is dropped.
Stopped(f, p) == [f EXCEPT ![p].pc = "closed"]

\* decode_ticket or a connect fails: run_sync returns the error, the
\* thread reports it and drops the runtime.
JoinFails(p) ==
    /\ sync_thread[p].pc = "ready"
    /\ sync_thread[p].mode = "Join"
    /\ sync_thread' = [sync_thread EXCEPT ![p].pc = "failed"]
    /\ events' = [events EXCEPT ![p] = Append(@, <<"Error">>)]
    /\ ptask' = [ptask EXCEPT ![p] = NoTask]
    /\ conn' = Stopped(conn, p)
    /\ UNCHANGED <<local_presence, latest, outgoing_rx, pwire, incoming,
                   syncQ, quota>>
    /\ CoreFrame

\* A sync connection task of p hands a document to sync_tx.
RemoteArrives(p) ==
    /\ conn[p].pc = "select"
    /\ Runnable(p)
    /\ quota > 0
    /\ quota' = quota - 1
    /\ syncQ' = [syncQ EXCEPT ![p] = Append(@, syncDoc[p])]
    /\ UNCHANGED <<local_presence, latest, outgoing_rx, ptask, pwire,
                   incoming, events, conn, sync_thread>>
    /\ CoreFrame

\* The loop of run_sync: the sync_rx arm.
LoopSyncRx(p) ==
    /\ sync_thread[p].pc = "loop"
    /\ syncQ[p] # <<>>
    /\ syncQ' = [syncQ EXCEPT ![p] = Tail(@)]
    /\ events' = [events EXCEPT ![p] = Append(@, <<"RemoteChanges">>)]
    /\ UNCHANGED <<local_presence, latest, outgoing_rx, ptask, pwire,
                   incoming, conn, sync_thread, quota>>
    /\ CoreFrame

\* The loop of run_sync: the presence_rx arm.
LoopPresenceRx(p) ==
    /\ sync_thread[p].pc = "loop"
    /\ incoming[p] # <<>>
    /\ incoming' = [incoming EXCEPT ![p] = Tail(@)]
    /\ \E ev \in {presence_event(Head(incoming[p]))} :
          events' = IF ev = <<>> THEN events
                    ELSE [events EXCEPT ![p] = Append(@, ev)]
    /\ UNCHANGED <<local_presence, latest, outgoing_rx, ptask, pwire,
                   conn, syncQ, sync_thread, quota>>
    /\ CoreFrame

\* main after run_app: SyncCommand::Shutdown is sent.
SendShutdown(p) ==
    /\ sync_thread[p].pc \in {"ready", "loop"}
    /\ ~sync_thread[p].shutdown
    /\ sync_thread' = [sync_thread EXCEPT ![p].shutdown = TRUE]
    /\ UNCHANGED <<local_presence, latest, outgoing_rx, ptask, pwire,
                   incoming, events, conn, syncQ, quota>>
    /\ CoreFrame

\* The Shutdown arm of the command loop, statement by statement; no task
\* of p runs in between, the other process does.
ShutdownStep(p) ==
    /\ \/ sync_thread[p].pc = "loop" /\ sync_thread[p].shutdown
       \/ sync_thread[p].pc = "left"
    /\ \E next \in {after_shutdown(sync_thread[p].pc)} :
          /\ sync_thread' = [sync_thread EXCEPT
                                ![p].pc = next,
                                ![p].left = @ \/ next = "left"]
          /\ outgoing_rx' =
                IF next = "left" /\ ptask[p].pc \in {"select", "holding"}
                THEN [outgoing_rx EXCEPT
                         ![p] = broadcast_send(@, <<"Leave", PeerIdOf(p)>>)]
                ELSE outgoing_rx
          /\ ptask' = IF next = "stopping" /\ sync_thread[p].joined
                      THEN [ptask EXCEPT ![p] = NoTask] ELSE ptask
          /\ conn' = IF next = "stopping" /\ sync_thread[p].joined
                     THEN Stopped(conn, p) ELSE conn
    /\ UNCHANGED <<local_presence, latest, pwire, incoming, events, syncQ,
                   quota>>
    /\ CoreFrame

\* router.shutdown() returns and run_sync with it: the runtime is dropped
\* with every task still on it.
RouterShutdown(p) ==
    /\ sync_thread[p].pc = "stopping"
    /\ sync_thread' = [sync_thread EXCEPT ![p].pc = "done"]
    /\ ptask' = [ptask EXCEPT ![p] = NoTask]
    /\ conn' = Stopped(conn, p)
    /\ UNCHANGED <<local_presence, latest, outgoing_rx, pwire, incoming,
                   events, syncQ, quota>>
    /\ CoreFrame

CoreInit ==
    /\ store = BaseDoc.store
    /\ document = [p \in Procs |-> [am |-> BaseDoc.am, dirty |-> FALSE]]
    /\ nextId = [p \in Procs |-> 0]
    /\ active_layer = [p \in Procs |-> <<>>]
    /\ quota = MaxCoreEvents
    /\ last = NoCall
    /\ trail = [p \in Procs |-> <<>>]
    /\ undone = [p \in Procs |-> <<>>]
    /\ SyncIdle
    /\ sync_thread = [p \in Procs |-> NoThread]

CoreNext ==
    \E p \in Procs :
       \/ MainStart(p)
       \/ EndpointBind(p)
       \/ EnterLoop(p)
       \/ JoinPeer(p)
       \/ JoinFails(p)
       \/ RemoteArrives(p)
       \/ LoopSyncRx(p)
       \/ LoopPresenceRx(p)
       \/ SendShutdown(p)
       \/ ShutdownStep(p)
       \/ RouterShutdown(p)
       \/ PStart(p)
       \/ PBroadcast(p)
       \/ POutgoing(p)
       \/ PRecv(p)
       \/ PSendDone(p)

CoreSpec == CoreInit /\ [][CoreNext]_vars

\* The sync thread runs whenever it can, and so do its tasks.
CoreFairSpec ==
    /\ CoreSpec
    /\ \A p \in Procs :
          /\ WF_vars(EndpointBind(p))
          /\ WF_vars(EnterLoop(p))
          /\ WF_vars(JoinFails(p))
          /\ WF_vars(ShutdownStep(p))
          /\ WF_vars(RouterShutdown(p))

\* A connection task of p is running.
TaskRunning(p) == ptask[p].pc # "closed" \/ conn[p].pc # "closed"

\* Leave of process p is somewhere on its way to, or has reached, the
\* other process.
LeaveSent(p) ==
    \/ \E i \in 1..Len(pwire[Peer(p)]) : pwire[Peer(p)][i][1] = "Leave"
    \/ \E i \in 1..Len(incoming[Peer(p)]) : incoming[Peer(p)][i][1] = "Leave"
    \/ \E i \in 1..Len(events[Peer(p)]) :
          EventKind(events[Peer(p)][i]) = "PresenceRemoved"

\* C25: handling Shutdown, broadcast_leave comes before any connection
\* task is stopped; once run_sync has ended no connection task of the
\* process runs, joined or accepted; and a Shutdown that was sent to a
\* running command loop ends it, whether or not Leave gets anywhere.
C25_Shutdown ==
    /\ [][\A p \in Procs :
             (/\ TaskRunning(p)
              /\ ptask'[p].pc = "closed"
              /\ conn'[p].pc = "closed"
              /\ sync_thread'[p].pc # "failed") => sync_thread[p].left]_vars
    /\ [](\A p \in Procs :
             /\ sync_thread[p].pc \in {"stopping", "done"}
                   => sync_thread[p].left
             /\ sync_thread[p].pc = "stopping" /\ sync_thread[p].joined
                   => ~TaskRunning(p)
             /\ sync_thread[p].pc = "done" => ~TaskRunning(p))
    /\ \A p \in Procs :
          (sync_thread[p].shutdown /\ sync_thread[p].pc = "loop")
             ~> (sync_thread[p].pc = "done")

\* A process that had joined the other one was shut down; its Leave never
\* left it.
C25_Witness ==
    \E p \in Procs :
       /\ sync_thread[p].pc = "done"
       /\ sync_thread[p].joined
       /\ ~LeaveSent(p)
       /\ ptask[Peer(p)].pc = "select"

Ready(p) == <<"Ready", TicketOf(p), PeerIdOf(p)>>

ReadyCount(p) ==
    Cardinality({i \in 1..Len(events[p]) : EventKind(events[p][i]) = "Ready"})

MaxStoreOps == 2

\* Outcomes of the file system calls of a save: all succeed;
\* create_dir_all fails; write fails after truncating the file.
IoOutcomes == {"ok", "mkdir", "write"}

\* std::fs::write(path, bytes).
fs_write(dk, f, bytes, io) ==
    IF io = "ok" THEN [dk EXCEPT ![f] = [st |-> "file", bytes |-> bytes]]
    ELSE IF io = "write" THEN [dk EXCEPT ![f] = [st |-> "torn", bytes |-> {}]]
    ELSE dk

save_to_eager(D, sp, dk, f, io) ==
    [dirty |-> FALSE, path |-> IF io = "ok" THEN <<f>> ELSE sp,
     disk |-> fs_write(dk, f, D.am, io), ret |-> io = "ok"]

\* Document::save_to: the `?` of create_dir_all and of write return before
\* storage_path and dirty are assigned.
save_to(D, sp, dk, f, io) ==
    [dirty |-> IF io = "ok" THEN FALSE ELSE D.dirty,
     path |-> IF io = "ok" THEN <<f>> ELSE sp,
     disk |-> fs_write(dk, f, D.am, io),
     ret |-> io = "ok"]

\* Document::save: nothing is done without a storage_path.
save(D, sp, dk, io) ==
    IF sp = <<>> THEN [dirty |-> D.dirty, path |-> sp, disk |-> dk, ret |-> TRUE]
    ELSE [dirty |-> IF io = "ok" THEN FALSE ELSE D.dirty,
          path |-> sp,
          disk |-> fs_write(dk, sp[1], D.am, io),
          ret |-> io = "ok"]

\* Document::clear_undo_history: both stacks are emptied, created when
\* missing; dirty is left as it is.
clear_undo_history(st, D, a) ==
    Bind(TxBegin(st, D.am, a), LAMBDA t0 :
    Bind(TxGetOrCreate(t0, "undo_stack", "List"), LAMBDA u :
    Bind(TxClearList(u.tx, u.obj), LAMBDA t1 :
    Bind(TxGetOrCreate(t1, "redo_stack", "List"), LAMBDA r :
    Bind(TxClearList(r.tx, r.obj), LAMBDA t2 :
        Result(TxCommit(st, D.am, t2), D.dirty, TRUE))))))

\* A save: the document and the store stay, dirty, the path and the disk
\* are as the call leaves them.
Saved(p, op, r) ==
    /\ document' = [document EXCEPT ![p].dirty = r.dirty]
    /\ storage_path' = [storage_path EXCEPT ![p] = r.path]
    /\ disk' = r.disk
    /\ last' = [op |-> op, p |-> p, ret |-> r.ret, pre |-> document[p],
                exp |-> <<>>]

\* What a save leaves alone.
SaveFrame ==
    UNCHANGED <<store, nextId, active_layer, quota, trail, undone,
                syncDoc, changeVer, commandQ, syncQ, eventQ, conn, wire,
                processed, edits, drops, aborted, peers, last_stale_prune,
                netVars, walk>>

\* Document::save, as App::autosave calls it.
Save(p) ==
    /\ \E io \in IoOutcomes :
          Saved(p, "save", save(document[p], storage_path[p], disk, io))
    /\ SaveFrame

SaveTo(p) ==
    /\ \E f \in Paths, io \in IoOutcomes :
          Saved(p, "save_to",
                save_to(document[p], storage_path[p], disk, f, io))
    /\ SaveFrame

\* Document::set_storage_path, as main calls it for a fresh document.
SetStoragePath(p) ==
    /\ storage_path[p] = <<>>
    /\ last.op = "none"
    /\ storage_path' = [storage_path EXCEPT ![p] = <<"a.automerge">>]
    /\ UNCHANGED <<store, document, nextId, active_layer, quota, last, trail,
                   undone, syncDoc, changeVer, commandQ, syncQ, eventQ, conn,
                   wire, processed, edits, drops, aborted, peers,
                   last_stale_prune, netVars, disk, walk>>

ClearUndoHistory(p) ==
    /\ Call(p, "clear_undo_history",
            clear_undo_history(store, document[p], Actor(p)), <<>>)
    /\ trail' = [trail EXCEPT ![p] = <<>>]
    /\ undone' = [undone EXCEPT ![p] = <<>>]
    /\ UNCHANGED <<nextId, active_layer>>

\* A z-order move of the shapes of the replica.
StoreReorder(p) ==
    \E S \in SUBSET ShapeIds(p) :
       \/ OrderCall(p, "bring_to_front",
                    bring_to_front(store, document[p], Actor(p), S), <<S>>)
       \/ OrderCall(p, "send_to_back",
                    send_to_back(store, document[p], Actor(p), S), <<S>>)
       \/ OrderCall(p, "bring_forward",
                    bring_forward(store, document[p], Actor(p), S), <<S>>)
       \/ OrderCall(p, "send_backward",
                    send_backward(store, document[p], Actor(p), S), <<S>>)

SetShapeGroup(p) ==
    \E id \in ShapeIds(p), g \in {<<>>, <<50>>} :
       OrderCall(p, "set_shape_group",
                 set_shape_group(store, document[p], Actor(p), id, g), <<id>>)

StoreInit == InitShared(MaxStoreOps)

StoreNext ==
    \/ AddShapeOf(2, {<<"Rectangle", 0, <<>>>>})
    \/ MergeRemote(1, 2)
    \/ \E p \in {1} :
          \/ AddShapeOf(p, {<<"Rectangle", 1, <<>>>>})
          \/ UpdateShape(p)
          \/ DeleteShape(p)
          \/ StoreReorder(p)
          \/ CreateGroup(p)
          \/ DeleteGroup(p)
          \/ SetShapeGroup(p)
          \/ CreateLayer(p)
          \/ DeleteLayer(p)
          \/ MoveLayer(p)
          \/ SetShapeLayer(p)
          \/ PushUndoCheckpoint(p)
          \/ GlobalUndo(p)
          \/ GlobalRedo(p)
          \/ ClearUndoHistory(p)
          \/ SetStoragePath(p)
          \/ Save(p)
          \/ SaveTo(p)

StoreSpec == StoreInit /\ [][StoreNext]_vars

SaveOps == {"save", "save_to"}

\* C27: a save() or save_to() that fails leaves document, dirty flag and
\* storage path as they were; dirty goes from true to false only in a
\* save that returned Ok and wrote the document to the file of the
\* storage path; and after a failed save the API still takes calls.
C27_SaveFailureNonFatal ==
    /\ [][\A p \in Procs :
             /\ (last' # last /\ last'.op \in SaveOps /\ last'.p = p
                 /\ ~last'.ret) =>
                   /\ document'[p] = document[p]
                   /\ storage_path'[p] = storage_path[p]
                   /\ store' = store
             /\ (document[p].dirty /\ ~document'[p].dirty) =>
                   /\ last'.op \in SaveOps /\ last'.p = p /\ last'.ret
                   /\ document'[p].am = document[p].am
                   /\ storage_path'[p] # <<>>
                   /\ disk'[storage_path'[p][1]] =
                         [st |-> "file", bytes |-> document[p].am]]_vars
    /\ [](\A p \in {1} :
             (last.op \in SaveOps /\ last.p = p /\ ~last.ret /\ quota > 0) =>
                /\ ENABLED PushUndoCheckpoint(p)
                /\ ENABLED Save(p))

\* A write failed and tore the file; the replica then changed the
\* document and saved it to the same path.
C27_Witness ==
    /\ last.op = "save"
    /\ last.ret
    /\ last.pre.dirty
    /\ ~document[1].dirty
    /\ quota = 0
    /\ disk["a.automerge"] = [st |-> "file", bytes |-> document[1].am]
    /\ disk["b.automerge"].st = "torn"

GraphOps ==
    {"add_shape", "update_shape", "delete_shape", "bring_to_front",
     "send_to_back", "bring_forward", "send_backward", "create_group",
     "delete_group", "set_shape_group", "create_layer", "delete_layer",
     "move_layer", "set_shape_layer", "push_undo_checkpoint", "global_undo",
     "global_redo", "clear_undo_history", "merge"}

\* C28: after a Document Store operation that changed the graph of the
\* replica, its dirty flag is true.
C28_MutationsMarkDirty ==
    \A p \in Procs :
       (last.op \in GraphOps /\ last.p = p /\ document[p].am # last.pre.am)
          => document[p].dirty

(***************************************************************************)
(* CorruptSpec: read_all_shapes over documents whose shapes map also holds *)
(* records written by another program: any key, any fields.  The entry     *)
(* "str" of a record names the fields whose scalar is a string where the   *)
(* code expects an integer.                                                *)
(***************************************************************************)
\* Records put into the shapes map.
MaxRecords == 3

\* A key that Uuid::parse_str rejects.
BadKey == 99

parse_str(key) == IF key = BadKey THEN "err" ELSE "ok"

GoodRecord == [kind |-> "Rectangle", start_x |-> 1]

CorruptRecords ==
    { [start_x |-> 1],                                    \* no kind
      [kind |-> "Blob", start_x |-> 1],                   \* unknown kind
      [kind |-> "Rectangle"],                             \* missing field
      [kind |-> "Rectangle", start_x |-> 1, str |-> {"start_x"}],
      [kind |-> "Text", content |-> <<"a">>] }            \* missing field

\* get_i32: Err unless the key is there with an integer scalar.
get_i32(f, key) ==
    IF key \in DOMAIN f /\ ("str" \notin DOMAIN f \/ key \notin f.str)
    THEN "ok" ELSE "err"

\* read_shape_kind with its failures: <<"some", kind>>, <<"none">> for a
\* missing or unknown kind, <<"err">> when a field getter fails.
try_read_shape_kind(f) ==
    IF "kind" \notin DOMAIN f THEN <<"none">>
    ELSE IF f.kind = "Rectangle"
    THEN IF get_i32(f, "start_x") = "ok" THEN <<"some", read_shape_kind(f)>>
         ELSE <<"err">>
    ELSE IF f.kind = "Text"
    THEN IF get_i32(f, "x") = "ok" /\ "content" \in DOMAIN f
         THEN <<"some", read_shape_kind(f)>>
         ELSE <<"err">>
    ELSE <<"none">>

\* One round of the loop of read_all_shapes for a key and its record.
read_one(key, f) ==
    IF parse_str(key) = "err" THEN <<"err">> ELSE try_read_shape_kind(f)

\* The (key, record) pairs of the shapes map.
ShapeRecords(st, d) ==
    Bind(OpsOf(st, d), LAMBDA ops :
    Bind(RootObj(ops, "shapes"), LAMBDA g :
        IF g = <<>> THEN {}
        ELSE {<<key, OpVal(MapGet(ops, g[1], key)[1])>> :
                 key \in MapKeys(ops, g[1])}))

\* Document::read_all_shapes as a Result: the first `?` that fails ends
\* the call with Err.
try_read_all_shapes(st, d) ==
    Bind(ShapeRecords(st, d), LAMBDA recs :
        IF \E r \in recs : read_one(r[1], r[2]) = <<"err">>
        THEN [ret |-> FALSE, shapes |-> {}]
        ELSE [ret |-> TRUE,
              shapes |-> {<<r[1], read_one(r[1], r[2])[2]>> :
                             r \in {x \in recs :
                                       read_one(x[1], x[2])[1] = "some"}}])

\* The shapes of the records that decode.
WellFormed(st, d) ==
    {<<r[1], read_shape_kind(r[2])>> :
        r \in {x \in ShapeRecords(st, d) :
                  /\ x[1] # BadKey
                  /\ x[2] \in {GoodRecord}}}

\* A record is put into the shapes map of the replica under a fresh or an
\* invalid key.
PutRecord(p) ==
    /\ \E key \in {FreshId(p), BadKey}, f \in CorruptRecords \cup {GoodRecord} :
          Call(p, "put_record",
               Bind(TxBegin(store, document[p].am, Actor(p)), LAMBDA t0 :
               Bind(TxGetOrCreate(t0, "shapes", "Map"), LAMBDA s :
               Bind(TxPutObject(s.tx, s.obj, key, f), LAMBDA t2 :
                   Result(TxCommit(store, document[p].am, t2), TRUE, TRUE)))),
               <<key>>)
    /\ nextId' = [nextId EXCEPT ![p] = @ + 1]
    /\ UNCHANGED <<active_layer, trail, undone>>

ReadAllShapes(p) ==
    /\ last.op # "read_all_shapes"
    /\ \E r \in {try_read_all_shapes(store, document[p].am)} :
          last' = [op |-> "read_all_shapes", p |-> p, ret |-> r.ret,
                   pre |-> document[p], exp |-> <<r.shapes>>]
    /\ UNCHANGED <<store, document, nextId, active_layer, quota, trail,
                   undone, syncVars>>

CorruptInit == InitShared(MaxRecords)

CorruptNext == \E p \in {1} : PutRecord(p) \/ ReadAllShapes(p)

CorruptSpec == CorruptInit /\ [][CorruptNext]_vars

\* C29: read_all_shapes returns Ok with exactly the shapes of the records
\* that decode, whatever else the shapes map holds.
C29_ReadSkipsCorrupt ==
    last.op = "read_all_shapes" =>
       /\ last.ret
       /\ last.exp[1] = WellFormed(store, document[last.p].am)

(***************************************************************************)
(* WalkSpec: get_root_group and get_all_group_shapes, one loop iteration   *)
(* a step, over groups with any parent: none, itself, another group, a     *)
(* group that does not exist.                                              *)
(***************************************************************************)
\* Groups in the document.
MaxWalkGroups == 3

WalkIds == 50..(50 + MaxWalkGroups - 1)

\* The one member of a group.
MemberOf(g) == g - 40

\* Group.parent as read_group reads it: <<>> for None.
ReadGroupParent(ops, id) ==
    Bind(RootObj(ops, "groups"), LAMBDA g :
        IF g = <<>> THEN <<>>
        ELSE Bind(MapGet(ops, g[1], id), LAMBDA gr :
             IF gr = <<>> THEN <<>>
             ELSE Bind(MapGet(ops, OpId(gr[1]), "parent"), LAMBDA pa :
                  IF pa = <<>> THEN <<>> ELSE <<OpVal(pa[1])>>)))

\* The ids read_all_groups returns groups for.
AllGroups(ops) ==
    Bind(RootObj(ops, "groups"), LAMBDA g :
        IF g = <<>> THEN {} ELSE MapKeys(ops, g[1]))

seen_contains_never(seen, parent) == FALSE

\* seen.contains(&parent)
seen_contains(seen, parent) == parent \in seen

\* One iteration of the while loop of get_root_group.
root_step(ops, w) ==
    IF ReadGroupOps(ops, w.current) = <<>> THEN [w EXCEPT !.pc = "done"]
    ELSE Bind(ReadGroupParent(ops, w.current), LAMBDA parent :
         IF parent = <<>> THEN [w EXCEPT !.pc = "done"]
         ELSE IF seen_contains(w.seen, parent[1]) THEN [w EXCEPT !.pc = "done"]
         ELSE [w EXCEPT !.seen = @ \cup {w.current}, !.current = parent[1]])

\* One iteration of the while loop of get_all_group_shapes: pop, skip
\* what was visited, collect the members and push the groups whose parent
\* is the one popped.
all_step(ops, w) ==
    IF w.to_visit = <<>> THEN [w EXCEPT !.pc = "done"]
    ELSE Bind(w.to_visit[Len(w.to_visit)], LAMBDA group_id :
         Bind(SubSeq(w.to_visit, 1, Len(w.to_visit) - 1), LAMBDA rest :
         IF group_id \in w.visited THEN [w EXCEPT !.to_visit = rest]
         ELSE Bind(ReadGroupOps(ops, group_id), LAMBDA group :
              IF group = <<>>
              THEN [w EXCEPT !.to_visit = rest,
                             !.visited = @ \cup {group_id}]
              ELSE [w EXCEPT
                       !.visited = @ \cup {group_id},
                       !.all_shapes = @ \o group[1],
                       !.to_visit =
                          rest \o SortAsc({g \in AllGroups(ops) :
                                     ReadGroupParent(ops, g) = <<group_id>>})])))

\* A group is created under an id of its own with any parent.
PutGroup(p) ==
    /\ walk.pc = "idle"
    /\ \E id \in WalkIds \ AllGroups(OpsOf(store, document[p].am)),
          parent \in {<<>>} \cup {<<g>> : g \in WalkIds} :
          Call(p, "create_group",
               create_group(store, document[p], Actor(p), id,
                            <<MemberOf(id)>>, parent), <<id>>)
    /\ UNCHANGED <<nextId, active_layer, trail, undone>>

\* What a step of a walk leaves alone.
WalkFrame ==
    UNCHANGED <<store, document, nextId, active_layer, quota, trail, undone,
                syncDoc, changeVer, commandQ, syncQ, eventQ, conn, wire,
                processed, edits, drops, aborted, peers, last_stale_prune,
                netVars, storage_path, disk>>

GetRootGroup(p) ==
    /\ walk.pc = "idle"
    /\ \E id \in WalkIds :
          walk' = [NoWalk EXCEPT !.pc = "loop", !.fn = "get_root_group",
                                 !.arg = id, !.current = id]
    /\ last' = [NoCall EXCEPT !.op = "call"]
    /\ WalkFrame

GetAllGroupShapes(p) ==
    /\ walk.pc = "idle"
    /\ \E id \in WalkIds :
          walk' = [NoWalk EXCEPT !.pc = "loop", !.fn = "get_all_group_shapes",
                                 !.arg = id, !.to_visit = <<id>>]
    /\ last' = [NoCall EXCEPT !.op = "call"]
    /\ WalkFrame

\* One iteration of the loop under way; when the loop ends the call
\* returns.
WalkStep(p) ==
    /\ walk.pc = "loop"
    /\ \E w \in {IF walk.fn = "get_root_group"
                 THEN root_step(OpsOf(store, document[p].am), walk)
                 ELSE all_step(OpsOf(store, document[p].am), walk)} :
          IF w.pc = "done"
          THEN /\ walk' = NoWalk
               /\ last' = [op |-> w.fn, p |-> p, ret |-> TRUE,
                           pre |-> document[p],
                           exp |-> <<w.arg, IF w.fn = "get_root_group"
                                            THEN <<w.current>>
                                            ELSE w.all_shapes>>]
          ELSE /\ walk' = w
               /\ UNCHANGED last
    /\ WalkFrame

WalkInit == InitShared(MaxWalkGroups)

WalkNext ==
    \E p \in {1} :
       \/ PutGroup(p)
       \/ GetRootGroup(p)
       \/ GetAllGroupShapes(p)
       \/ WalkStep(p)

WalkSpec == WalkInit /\ [][WalkNext]_vars

\* A call that has started keeps running.
WalkFairSpec == WalkSpec /\ WF_vars(WalkStep(1))

\* The groups from which parent links lead to group id, id included.
RECURSIVE Reaching(_, _, _)
Reaching(ops, S, n) ==
    IF n = 0 THEN S
    ELSE Reaching(ops,
                  S \cup {g \in AllGroups(ops) :
                             \E s \in S : ReadGroupParent(ops, g) = <<s>>},
                  n - 1)

SeqToSet(s) == {s[i] : i \in 1..Len(s)}

\* C30: every call of get_root_group and get_all_group_shapes returns;
\* get_all_group_shapes of a group returns the members of the groups from
\* which parent links lead to it, itself included.
C30_GroupWalks ==
    /\ (walk.pc = "loop") ~> (walk.pc = "idle")
    /\ [](LET ops == OpsOf(store, document[1].am)
          IN (/\ last.op = "get_all_group_shapes"
              /\ last.exp[1] \in AllGroups(ops)) =>
                SeqToSet(last.exp[2]) =
                   {MemberOf(g) :
                       g \in Reaching(ops, {last.exp[1]}, MaxWalkGroups)})

\* get_all_group_shapes returned the three members for a group on a
\* cycle of three groups.
C30_Witness ==
    LET ops == OpsOf(store, document[1].am)
    IN /\ last.op = "get_all_group_shapes"
       /\ Len(last.exp[2]) = 3
       /\ \A g \in WalkIds : ReadGroupParent(ops, g) # <<>>
       /\ \A g \in WalkIds : ReadGroupParent(ops, g) # <<g>>
       /\ \A g, h \in WalkIds :
             g # h => ReadGroupParent(ops, g) # ReadGroupParent(ops, h)

(***************************************************************************)
(* ConcurrentSpec: two replicas that loaded the same file with one shape   *)
(* call update_shape on it, each on its own, and merge each other's        *)
(* changes.                                                                *)
(***************************************************************************)
\* Number of update_shape calls explored in ConcurrentSpec.
MaxConcurrentOps == 2

\* The records given to update_shape.
ConcurrentKinds == Kinds \cup {<<"Rectangle", 2, <<>>>>}

ConcurrentLoadFile ==
    /\ Authoring
    /\ ShapeIds(1) /= {}
    /\ quota' = MaxConcurrentOps
    /\ last' = [NoCall EXCEPT !.op = "load"]
    /\ UNCHANGED <<store, document, nextId, active_layer, trail, undone,
                   syncVars>>

\* update_shape of the file's shape; edits keeps the record written.
ConcurrentUpdateShape(p) ==
    /\ \E id \in ShapeIds(p) : \E kind \in ConcurrentKinds :
          /\ Apply(p, "update_shape",
                   update_shape(store, document[p], Actor(p), id, kind),
                   <<id>>)
          /\ edits' = [edits EXCEPT
                          ![p] = Append(@, <<"update_shape", id, kind, TRUE>>)]
    /\ undone' = [undone EXCEPT ![p] = <<>>]
    /\ UNCHANGED <<nextId, active_layer, trail, syncDoc, changeVer, commandQ,
                   syncQ, eventQ, conn, wire, processed, drops, presenceVars,
                   aborted>>

ConcurrentInit == InitShared(0)

ConcurrentNext ==
    \/ AuthorAddShape
    \/ ConcurrentLoadFile
    \/ \E p \in Procs :
          \/ ConcurrentUpdateShape(p)
          \/ \E q \in Procs : MergeRemote(p, q)

ConcurrentSpec == ConcurrentInit /\ [][ConcurrentNext]_vars

\* Each replica has called update_shape once, with different records and
\* without the other's change, and both have merged since.
ConcurrentUpdates ==
    /\ \A p \in Procs : Len(edits[p]) = 1
    /\ edits[1][1][3] /= edits[2][1][3]
    /\ \A p \in Procs : <<Peer(p), 1>> \notin store[<<p, 1>>].deps
    /\ \A p \in Procs : {<<1, 1>>, <<2, 1>>} \subseteq document[p].am

\* The record a replica reads for the shape id: <<>> when there is none.
RecordOf(p, id) ==
    Bind({s \in Shapes(p) : s[1] = id}, LAMBDA found :
        IF found = {} THEN <<>> ELSE <<(CHOOSE s \in found : TRUE)[2]>>)

\* What read_shape_kind returns for a record written by write_shape_kind.
Decoded(kind) == read_shape_kind(write_shape_kind(kind))

\* The record read is what one of the two written records decodes to: no
\* field of the other record shows.
WholeRecordAsDecoded ==
    ConcurrentUpdates =>
       \E w \in Procs :
          \A p \in Procs :
             RecordOf(p, AuthorShape) = <<Decoded(edits[w][1][3])>>

\* C31: when two replicas concurrently call update_shape on the same shape
\* id with different records and then sync, both replicas read the same
\* record for that id, and it equals one of the two written records in
\* every field.
C31_WholeRecordUpdate ==
    ConcurrentUpdates =>
       \E w \in Procs :
          \A p \in Procs : RecordOf(p, AuthorShape) = <<edits[w][1][3]>>

(***************************************************************************)
(* ShapeSpec: one replica working through add_shape, update_shape,         *)
(* delete_shape, the z-order moves and the undo API on up to MaxShapeIds   *)
(* shapes.                                                                 *)
(***************************************************************************)
\* Number of API calls explored in ShapeSpec.
MaxShapeOps == 4

\* Shapes the replica of ShapeSpec may add.
MaxShapeIds == 3

\* add_shape; the call keeps the id drawn and the record given.
ShapeAdd(p) ==
    /\ nextId[p] < MaxShapeIds
    /\ \E kind \in Kinds :
          Call(p, "add_shape",
               add_shape(store, document[p], Actor(p), FreshId(p), kind),
               <<FreshId(p), kind>>)
    /\ nextId' = [nextId EXCEPT ![p] = @ + 1]
    /\ undone' = [undone EXCEPT ![p] = <<>>]
    /\ UNCHANGED <<active_layer, trail>>

\* update_shape of a shape of the replica.
ShapeUpdate(p) ==
    \E id \in ShapeIds(p) : \E kind \in Kinds :
       OrderCall(p, "update_shape",
                 update_shape(store, document[p], Actor(p), id, kind),
                 <<id, kind>>)

ShapeInit == InitShared(MaxShapeOps)

ShapeNext ==
    \E p \in {1} :
       \/ ShapeAdd(p)
       \/ ShapeUpdate(p)
       \/ DeleteShape(p)
       \/ StoreReorder(p)
       \/ PushUndoCheckpoint(p)
       \/ GlobalUndo(p)
       \/ GlobalRedo(p)

ShapeSpec == ShapeInit /\ [][ShapeNext]_vars

\* The ids of a document: the keys of shapes and the entries of shape_order.
IdsOf(d) ==
    {s[1] : s \in read_all_shapes(store, d)}
       \cup Bind(read_shape_order(store, d),
                 LAMBDA o : {o[i] : i \in 1..Len(o)})

\* C32: add_shape(kind) returns an id different from every id already in
\* the document, after which read_shape(id) returns kind, the id is the
\* last entry of shape_order, and all earlier entries of shape_order are
\* unchanged and in the same order.
C32_AddShape ==
    last.op = "add_shape" =>
       /\ last.ret
       /\ last.exp[1] \notin IdsOf(last.pre.am)
       /\ RecordOf(last.p, last.exp[1]) = <<last.exp[2]>>
       /\ OrderAfter = Append(OrderBefore, last.exp[1])

\* What add_shape does when the record is taken as read_shape_kind decodes
\* it.
AddShapeAsDecoded ==
    last.op = "add_shape" =>
       /\ last.ret
       /\ last.exp[1] \notin IdsOf(last.pre.am)
       /\ RecordOf(last.p, last.exp[1]) = <<Decoded(last.exp[2])>>
       /\ OrderAfter = Append(OrderBefore, last.exp[1])

\* C36: on a single replica, after any sequence of add_shape, update_shape,
\* delete_shape, the four z-order operations, push_undo_checkpoint,
\* global_undo and global_redo, shape_order contains exactly the ids that
\* are keys of shapes, each exactly once.
C36_OrderMatchesShapes ==
    \A p \in {1} :
       Bind(read_shape_order(store, document[p].am), LAMBDA order :
          /\ {order[i] : i \in 1..Len(order)} = ShapeIds(p)
          /\ \A i \in 1..Len(order) : \A j \in 1..Len(order) :
                order[i] = order[j] => i = j)

(***************************************************************************)
(* MemberSpec: one replica adding and deleting shapes and calling          *)
(* create_group with any list of shape ids (repeated ids and ids of no     *)
(* shape included) and any parent.                                         *)
(***************************************************************************)
\* Number of API calls explored in MemberSpec.
MaxMemberOps == 3

\* Longest member list given to create_group.
MaxMembers == 2

\* The shape ids given as members: those the replica may draw and one more.
MemberIds == {10 + n : n \in 0..MaxGroupIds}

MemberLists == UNION {[1..n -> MemberIds] : n \in 0..MaxMembers}

\* The parents given: none, or the first group drawn (for that group,
\* itself).
MemberParents == {<<>>, <<50>>}

\* create_group(members, parent); the call keeps the id drawn for the group
\* and both arguments.
NewGroup(p) ==
    /\ \E members \in MemberLists, parent \in MemberParents :
          Call(p, "create_group",
               create_group(store, document[p], Actor(p), FreshGroup(p),
                            members, parent),
               <<FreshGroup(p), members, parent>>)
    /\ undone' = [undone EXCEPT ![p] = <<>>]
    /\ UNCHANGED <<nextId, active_layer, trail>>

MemberInit == InitShared(MaxMemberOps)

MemberNext ==
    \E p \in {1} :
       \/ GroupAddShape(p)
       \/ DeleteShape(p)
       \/ NewGroup(p)

MemberSpec == MemberInit /\ [][MemberNext]_vars

\* C33: create_group(members, parent) with an empty member list returns an
\* error and changes nothing; with at least one member it creates one new
\* group whose members list equals the given list in order and whose parent
\* equals the given parent, and afterwards every listed member that exists
\* has group_id equal to the new group's id.
C33_CreateGroup ==
    LET p == last.p
        id == last.exp[1]
        members == last.exp[2]
        parent == last.exp[3]
    IN last.op = "create_group" =>
          IF members = <<>>
          THEN ~last.ret /\ document[p] = last.pre
          ELSE /\ last.ret
               /\ id \notin GroupKeys(store, last.pre.am)
               /\ GroupKeys(store, document[p].am)
                     = GroupKeys(store, last.pre.am) \cup {id}
               /\ read_group(store, document[p].am, id) = <<members>>
               /\ ReadGroupParent(OpsOf(store, document[p].am), id) = parent
               /\ \A i \in 1..Len(members) :
                     members[i] \in ShapeKeys(p) =>
                        get_shape_group(store, document[p].am, members[i])
                           = <<id>>

\* A second group was made, under the first group as parent, of the id of
\* no shape and of a shape that was in the first group.
C33_Witness ==
    /\ last.op = "create_group"
    /\ last.ret
    /\ last.exp = <<51, <<12, 10>>, <<50>>>>
    /\ ShapeKeys(1) = {10}
    /\ get_shape_group(store, last.pre.am, 10) = <<50>>
    /\ get_shape_group(store, document[1].am, 10) = <<51>>

(***************************************************************************)
(* ResizeSpec: one replica whose file holds a shape that lines and arrows  *)
(* are connected to; it adds lines and calls update_connections_for_resize *)
(* for that shape with any old and new kind.  The kinds given to the call  *)
(* are <<"DoubleBox", start, end>>, <<"Line", start, end>> and             *)
(* <<"Freehand", points>>.                                                 *)
(***************************************************************************)
\* Number of API calls explored in ResizeSpec.
MaxResizeOps == 3

\* Lines and arrows the replica may add.
MaxLines == 2

I32Max == 2147483647

Abs(n) == IF n < 0 THEN -n ELSE n

Max(a, b) == IF a >= b THEN a ELSE b

\* (a + b) / 2 of i32: the quotient is rounded towards zero.
Mid(a, b) == IF a + b >= 0 THEN (a + b) \div 2 ELSE -((-(a + b)) \div 2)

\* ShapeKind::snap_points
snap_points(kind) ==
    IF kind[1] = "DoubleBox"
    THEN LET min_x == Min(kind[2][1], kind[3][1])
             max_x == Max(kind[2][1], kind[3][1])
             min_y == Min(kind[2][2], kind[3][2])
             max_y == Max(kind[2][2], kind[3][2])
             mid_x == Mid(min_x, max_x)
             mid_y == Mid(min_y, max_y)
         IN << <<min_x, min_y>>, <<max_x, min_y>>, <<min_x, max_y>>,
               <<max_x, max_y>>, <<mid_x, min_y>>, <<mid_x, max_y>>,
               <<min_x, mid_y>>, <<max_x, mid_y>> >>
    ELSE IF kind[1] \in LineVariants THEN <<kind[2], kind[3]>>
    ELSE IF kind[2] = <<>> THEN <<>>
    ELSE IF Len(kind[2]) = 1 THEN <<kind[2][1]>>
    ELSE <<kind[2][1], kind[2][Len(kind[2])]>>

\* A search that keeps the last of the nearest snap points.
RECURSIVE BestSnap_last(_, _, _, _, _)
BestSnap_last(pos, old_snaps, i, best_idx, best_dist) ==
    IF i > Len(old_snaps) THEN best_idx
    ELSE Bind(Abs(pos[1] - old_snaps[i][1]) + Abs(pos[2] - old_snaps[i][2]),
              LAMBDA dist :
                 IF dist <= best_dist
                 THEN BestSnap_last(pos, old_snaps, i + 1, <<i>>, dist)
                 ELSE BestSnap_last(pos, old_snaps, i + 1, best_idx,
                                    best_dist))

\* find_corresponding_snap's loop from the snap point at position i on:
\* best_idx is <<>> for None.
RECURSIVE BestSnap(_, _, _, _, _)
BestSnap(pos, old_snaps, i, best_idx, best_dist) ==
    IF i > Len(old_snaps) THEN best_idx
    ELSE Bind(Abs(pos[1] - old_snaps[i][1]) + Abs(pos[2] - old_snaps[i][2]),
              LAMBDA dist :
                 IF dist < best_dist
                 THEN BestSnap(pos, old_snaps, i + 1, <<i>>, dist)
                 ELSE BestSnap(pos, old_snaps, i + 1, best_idx, best_dist))

\* find_corresponding_snap: <<>> for None.
find_corresponding_snap(pos, old_snaps, new_snaps) ==
    Bind(BestSnap(pos, old_snaps, 1, <<>>, I32Max), LAMBDA best_idx :
        IF best_idx = <<>> \/ best_idx[1] > Len(new_snaps) THEN <<>>
        ELSE <<new_snaps[best_idx[1]]>>)

\* An endpoint after the resize: moved when its connection is the resized
\* shape and a snap point was found.  <<>> when it is left alone.
MovedEnd(pos, connection, resized_conn_id, old_snaps, new_snaps) ==
    IF connection = <<resized_conn_id>>
    THEN find_corresponding_snap(pos, old_snaps, new_snaps)
    ELSE <<>>

\* The loop of update_connections_for_resize over the shapes read before
\* it: r is the Document so far, r.ret the vector updated.
RECURSIVE ResizeLoop(_, _, _, _, _, _)
ResizeLoop(r, a, shapes, resized_conn_id, old_snaps, new_snaps) ==
    IF shapes = <<>> THEN r
    ELSE
    Bind(Head(shapes)[1], LAMBDA id :
    Bind(Head(shapes)[2], LAMBDA kind :
    Bind(Tail(shapes), LAMBDA rest :
    Bind(IF kind[1] \notin LineVariants THEN r
         ELSE
         Bind(MovedEnd(kind[2], kind[4], resized_conn_id, old_snaps,
                       new_snaps), LAMBDA new_start :
         Bind(MovedEnd(kind[3], kind[5], resized_conn_id, old_snaps,
                       new_snaps), LAMBDA new_end :
            IF new_start = <<>> /\ new_end = <<>> THEN r
            ELSE Bind(update_shape(r.store, [am |-> r.am, dirty |-> r.dirty],
                                   a, id,
                                   <<kind[1],
                                     IF new_start = <<>> THEN kind[2]
                                     ELSE new_start[1],
                                     IF new_end = <<>> THEN kind[3]
                                     ELSE new_end[1],
                                     kind[4], kind[5]>>), LAMBDA u :
                     [store |-> u.store, am |-> u.am, dirty |-> u.dirty,
                      ret |-> Append(r.ret, id)]))), LAMBDA r2 :
        ResizeLoop(r2, a, rest, resized_conn_id, old_snaps, new_snaps)))))

\* update_connections_for_resize: ret is the vector of the ids updated.
\* The connection id of a shape is the low 64 bits of its id; the ids drawn
\* here differ in them.
update_connections_for_resize(st, D, a, resized_id, old_kind, new_kind) ==
    Bind(snap_points(old_kind), LAMBDA old_snaps :
    Bind(snap_points(new_kind), LAMBDA new_snaps :
        IF Len(old_snaps) /= Len(new_snaps)
        THEN [store |-> st, am |-> D.am, dirty |-> D.dirty, ret |-> <<>>]
        ELSE ResizeLoop([store |-> st, am |-> D.am, dirty |-> D.dirty,
                         ret |-> <<>>], a, serialize_shapes(st, D.am),
                        resized_id, old_snaps, new_snaps)))

\* The file: Document::new() and the shape the lines are connected to.
ResizeBase ==
    add_shape(BaseDoc.store, [am |-> BaseDoc.am, dirty |-> FALSE], BaseActor,
              AuthorShape, <<"Rectangle", 0, <<>>>>)

\* The id of a shape that is no longer in the document.
OtherShape == AuthorShape + 1

\* An endpoint and its connection: free, on or inside the resized shape and
\* connected to it, or connected to another shape.
LineEnds ==
    { <<<<0, 0>>, <<>>>>, <<<<0, 0>>, <<AuthorShape>>>>,
      <<<<1, 1>>, <<AuthorShape>>>>, <<<<1, 1>>, <<OtherShape>>>> }

LineKinds ==
    {<<v, s[1], e[1], s[2], e[2]>> : v \in LineVariants, s \in LineEnds,
                                     e \in LineEnds}

\* The old and new kinds of the resized shape.
ResizeKinds ==
    { <<"DoubleBox", <<0, 0>>, <<2, 2>>>>,
      <<"DoubleBox", <<1, 2>>, <<-2, 0>>>>,
      <<"Line", <<0, 0>>, <<2, 2>>>>,
      <<"Freehand", <<>>>>,
      <<"Freehand", << <<0, 0>>, <<1, 1>> >> >> }

AddLine(p) ==
    /\ nextId[p] < MaxLines
    /\ \E kind \in LineKinds :
          Call(p, "add_shape",
               add_shape(store, document[p], Actor(p), FreshId(p), kind),
               <<FreshId(p), kind>>)
    /\ nextId' = [nextId EXCEPT ![p] = @ + 1]
    /\ undone' = [undone EXCEPT ![p] = <<>>]
    /\ UNCHANGED <<active_layer, trail>>

UpdateConnectionsForResize(p) ==
    /\ \E old_kind \in ResizeKinds, new_kind \in ResizeKinds :
          Call(p, "update_connections_for_resize",
               update_connections_for_resize(store, document[p], Actor(p),
                                             AuthorShape, old_kind, new_kind),
               <<old_kind, new_kind>>)
    /\ undone' = [undone EXCEPT ![p] = <<>>]
    /\ UNCHANGED <<nextId, active_layer, trail>>

ResizeInit ==
    /\ store = ResizeBase.store
    /\ document = [p \in Procs |-> [am |-> ResizeBase.am, dirty |-> FALSE]]
    /\ nextId = [p \in Procs |-> 0]
    /\ active_layer = [p \in Procs |-> <<>>]
    /\ quota = MaxResizeOps
    /\ last = NoCall
    /\ trail = [p \in Procs |-> <<>>]
    /\ undone = [p \in Procs |-> <<>>]
    /\ SyncOff

ResizeNext ==
    \E p \in {1} :
       \/ AddLine(p)
       \/ UpdateConnectionsForResize(p)

ResizeSpec == ResizeInit /\ [][ResizeNext]_vars

\* Manhattan distance.
Distance(a, b) == Abs(a[1] - b[1]) + Abs(a[2] - b[2])

\* The index of the snap point nearest to pos, the lowest on ties.
Nearest(pos, snaps) ==
    CHOOSE i \in 1..Len(snaps) :
       \A j \in 1..Len(snaps) :
          \/ Distance(pos, snaps[i]) < Distance(pos, snaps[j])
          \/ Distance(pos, snaps[i]) = Distance(pos, snaps[j]) /\ i <= j

\* C34: update_connections_for_resize(resized_id, old_kind, new_kind): if
\* the old and new snap-point lists differ in length, no shape is modified
\* and the result is empty; otherwise every line/arrow endpoint whose
\* connection reference is resized_id is moved to the new snap point at the
\* index of the old snap point nearest to it by Manhattan distance (the
\* lowest index on ties), and endpoints not connected to resized_id and all
\* non-line shapes are unchanged.  (Without snap points there is no
\* nearest one, and nothing is said about connected endpoints.)
C34_ResizeConnections ==
    last.op = "update_connections_for_resize" =>
       LET old == snap_points(last.exp[1])
           new == snap_points(last.exp[2])
           before == read_all_shapes(store, last.pre.am)
       IN IF Len(old) /= Len(new)
          THEN last.ret = <<>> /\ document[last.p] = last.pre
          ELSE /\ ShapeIds(last.p) = {s[1] : s \in before}
               /\ \A s \in before :
                     \E t \in {RecordOf(last.p, s[1])[1]} :
                        IF s[2][1] \notin LineVariants THEN t = s[2]
                        ELSE /\ t[1] = s[2][1]
                             /\ t[4] = s[2][4]
                             /\ t[5] = s[2][5]
                             /\ \A e \in {2, 3} :
                                   IF s[2][e + 2] /= <<AuthorShape>>
                                   THEN t[e] = s[2][e]
                                   ELSE old /= <<>> =>
                                        t[e] = new[Nearest(s[2][e], old)]

\* The box was resized while an arrow led from its centre, which is as
\* near to one edge midpoint as to the three others, to a point where it is
\* connected to another shape: the start has moved to the midpoint with
\* the lowest index, the end is where it was.
C34_Witness ==
    /\ last.op = "update_connections_for_resize"
    /\ last.exp = << <<"DoubleBox", <<0, 0>>, <<2, 2>>>>,
                     <<"DoubleBox", <<1, 2>>, <<-2, 0>>>> >>
    /\ <<10, <<"Arrow", <<1, 1>>, <<1, 1>>, <<AuthorShape>>,
             <<OtherShape>>>>>> \in read_all_shapes(store, last.pre.am)
    /\ <<10, <<"Arrow", <<0, 0>>, <<1, 1>>, <<AuthorShape>>,
             <<OtherShape>>>>>> \in Shapes(1)
    /\ last.ret = <<10>>

(***************************************************************************)
(* FrameSpec: one replica that adds shapes, assigns them to a layer and to *)
(* a group, reorders them, and updates or translates them.                 *)
(***************************************************************************)
\* Number of API calls explored in FrameSpec.
MaxFrameOps == 4

FrameInit == InitShared(MaxFrameOps)

FrameNext ==
    \E p \in {1} :
       \/ GroupAddShape(p)
       \/ SetShapeLayer(p)
       \/ SetShapeGroup(p)
       \/ StoreReorder(p)
       \/ ShapeUpdate(p)
       \/ TranslateShape(p)

FrameSpec == FrameInit /\ [][FrameNext]_vars

\* The call was update_shape, directly or from translate_shape.
Updated == last.op \in {"update_shape", "translate_shape"} /\ last.ret

\* update_shape leaves shape_order as it was.
UpdateKeepsOrder == Updated => OrderAfter = OrderBefore

\* C35: update_shape(id, kind) replaces only the shape's kind fields: the
\* shape's layer reference, its group reference and its position in
\* shape_order are the same after the call as before it (also when the
\* call comes from translate_shape).
C35_UpdateShapeFrame ==
    Updated =>
       /\ get_shape_layer(store, document[last.p].am, last.exp[1])
             = get_shape_layer(store, last.pre.am, last.exp[1])
       /\ get_shape_group(store, document[last.p].am, last.exp[1])
             = get_shape_group(store, last.pre.am, last.exp[1])
       /\ OrderAfter = OrderBefore

(***************************************************************************)
(* RewriteSpec: two replicas that loaded the same file of up to            *)
(* MaxOrderShapes shapes and one or two layers; each rewrites shape_order  *)
(* (the four z-order operations) or layer_order (move_layer) and merges    *)
(* the changes of the other.                                               *)
(***************************************************************************)
\* Number of API calls explored in RewriteSpec.
MaxRewriteOps == 2

RewriteLoadFile ==
    /\ Authoring
    /\ quota' = MaxRewriteOps
    /\ last' = [NoCall EXCEPT !.op = "load"]
    /\ UNCHANGED <<store, document, nextId, active_layer, trail, undone,
                   syncVars>>

RewriteInit == InitShared(0)

RewriteNext ==
    \/ OrderAuthorAddShape
    \/ AuthorCreateLayer
    \/ RewriteLoadFile
    \/ \E p \in Procs :
          \/ StoreReorder(p)
          \/ MoveLayer(p)
          \/ \E q \in Procs : MergeRemote(p, q)

RewriteSpec == RewriteInit /\ [][RewriteNext]_vars

\* No value occurs twice in the list.
EachOnce(order) ==
    \A i \in 1..Len(order) : \A j \in 1..Len(order) :
       order[i] = order[j] => i = j

\* The replicas have loaded the file and hold the same changes.
InSync == ~Authoring /\ document[1].am = document[2].am

\* The changes of replica p are those of the file and its own.
Alone(p) == \A c \in document[p].am : c[1] \in {BaseActor, Actor(p)}

\* Calls of one replica alone never put an id into a list twice.
AloneEachOnce ==
    \A p \in Procs :
       Alone(p) =>
          /\ EachOnce(read_shape_order(store, document[p].am))
          /\ EachOnce(read_layer_order(store, document[p].am))

\* C37: after two replicas that share a document concurrently perform
\* order-rewriting operations (bring_to_front, send_to_back, bring_forward,
\* send_backward, move_layer) and then sync, shape_order and layer_order on
\* both replicas contain each id at most once.
C37_OrdersWithoutDuplicates ==
    InSync =>
       \A p \in Procs :
          /\ EachOnce(read_shape_order(store, document[p].am))
          /\ EachOnce(read_layer_order(store, document[p].am))

(***************************************************************************)
(* Processes that did not load a shared file (SyncSpec, second start).     *)
(***************************************************************************)
\* The layers a process shows.
Layers(p) ==
    Bind(read_all_layers(store, document[p].am),
         LAMBDA ls : {ls[i] : i \in 1..Len(ls)})

\* The layers the two Document::new() calls created.
OwnLayers ==
    Bind(read_all_layers(OwnDoc1.store, OwnDoc1.am)
            \o read_all_layers(OwnDoc2.store, OwnDoc2.am),
         LAMBDA ls : {ls[i] : i \in 1..Len(ls)})

\* Each process started with its own Document::new(), the only edits were
\* add_shape calls, and the exchange over the one connection is over.
OwnSynced ==
    /\ ~CommonStart
    /\ drops = 0
    /\ Quiescent
    /\ \A q \in Procs : \A i \in 1..Len(edits[q]) :
          edits[q][i][1] = "add_shape"

\* C40: when two processes that each created their own document with
\* Document::new() sync with each other, every shape and layer that either
\* process had created before the sync is still returned by
\* read_all_shapes() / read_all_layers() on both processes after the sync
\* is quiescent.
C40_OwnDocumentsKeepAll ==
    OwnSynced =>
       \A p \in Procs :
          /\ OwnLayers \subseteq Layers(p)
          /\ \A q \in Procs : \A i \in 1..Len(edits[q]) :
                edits[q][i][4] => edits[q][i][2] \in ShapeIds(p)

(***************************************************************************)
(* ChannelSpec: the sync thread of one process, step by step.  Its command *)
(* loop takes SyncDoc commands (merge_and_notify) and documents from       *)
(* sync_rx; its connection task answers the sync messages of the peer and  *)
(* sends the document on sync_tx.  The peer is the environment: it reads   *)
(* what was written to it and writes flushes of one sync message and the   *)
(* empty frame.  While the command loop is inside merge_and_notify         *)
(* (sync_thread.pc = "merge") the command it took is still the head of     *)
(* commandQ.                                                               *)
(***************************************************************************)
\* Flushes of the peer: one more than sync_tx holds.
MaxInbound == SyncChannelCap + 1

\* SyncDoc commands of the main thread.
MaxCommands == 1

\* The sync message of a peer that holds the document file.
PeerMessage ==
    Head(send_all_sync_messages(BaseDoc.store, BaseDoc.am, SyncStateNew,
                                MaxFlush).frames)

ChannelFrame ==
    UNCHANGED <<store, nextId, active_layer, last, trail, undone, edits,
                drops, aborted, peers, last_stale_prune, local_presence,
                latest, outgoing_rx, ptask, pwire, incoming, events,
                diskVars>>

\* The main thread sends a SyncDoc command with a clone of its document.
SendSyncDoc(p) ==
    /\ changeVer[p] + Len(commandQ[p]) < MaxCommands
    /\ commandQ' = [commandQ EXCEPT ![p] = Append(@, document[p].am)]
    /\ ChannelFrame
    /\ UNCHANGED <<document, quota, syncDoc, changeVer, syncQ, eventQ, conn,
                   wire, processed, sync_thread>>

\* The peer reads the frames written to it and writes a flush.
PeerSends(p) ==
    /\ quota > 0
    /\ conn[p].pc /= "closed"
    /\ wire[p] = <<>>
    /\ quota' = quota - 1
    /\ wire' = [wire EXCEPT ![p] = <<PeerMessage, Sentinel>>,
                            ![Peer(p)] = <<>>]
    /\ ChannelFrame
    /\ UNCHANGED <<document, syncDoc, changeVer, commandQ, syncQ, eventQ,
                   conn, processed, sync_thread>>

\* A connection is there: the task runs the first lines of
\* run_bidirectional_sync.
TaskStart(p) ==
    /\ conn[p].pc = "closed"
    /\ \E r \in {send_all_sync_messages(store, syncDoc[p],
                                        FreshSyncState(conn[p].st),
                                        MaxFlush)} :
          /\ wire' = [wire EXCEPT ![Peer(p)] = @ \o r.frames]
          /\ conn' = [conn EXCEPT ![p] = [Flushed(p, r) EXCEPT !.seen = 0]]
    /\ ChannelFrame
    /\ UNCHANGED <<document, quota, syncDoc, changeVer, commandQ, syncQ,
                   eventQ, processed, sync_thread>>

\* select!: change_rx.changed() is ready.
TaskChanged(p) ==
    /\ conn[p].pc = "select"
    /\ conn[p].seen /= changeVer[p]
    /\ \E r \in {send_all_sync_messages(store, syncDoc[p], conn[p].st,
                                        MaxFlush)} :
          /\ wire' = [wire EXCEPT ![Peer(p)] = @ \o r.frames]
          /\ conn' = [conn EXCEPT
                         ![p] = [Flushed(p, r) EXCEPT !.seen = changeVer[p]]]
    /\ ChannelFrame
    /\ UNCHANGED <<document, quota, syncDoc, changeVer, commandQ, syncQ,
                   eventQ, processed, sync_thread>>

\* select!: recv_msg has read a frame.  The locks of the receive and of the
\* flush are free: merge_and_notify holds the lock over no await.
TaskRecv(p) ==
    /\ conn[p].pc = "select"
    /\ wire[p] /= <<>>
    /\ \E m \in {Head(wire[p])} :
          IF m = Sentinel
          THEN /\ wire' = [wire EXCEPT ![p] = Tail(@)]
               /\ conn' = [conn EXCEPT ![p] = OnEmptyFrame(@)]
               /\ UNCHANGED <<syncDoc, processed>>
          ELSE decode(m) = "ok" /\
               \E r \in {receive_sync_message(store, syncDoc[p],
                                              conn[p].st, m)} :
               \E f \in {send_all_sync_messages(store, r.doc, r.state,
                                                MaxFlush)} :
                  /\ syncDoc' = [syncDoc EXCEPT ![p] = r.doc]
                  /\ wire' = [wire EXCEPT ![p] = Tail(@),
                                          ![Peer(p)] = @ \o f.frames]
                  /\ conn' = [conn EXCEPT ![p] = LockForNotify(Flushed(p, f))]
                  /\ processed' = [processed EXCEPT ![p] = @ \cup {m}]
    /\ ChannelFrame
    /\ UNCHANGED <<document, quota, changeVer, commandQ, syncQ, eventQ,
                   sync_thread>>

\* The sleep arm of the command loop: try_recv returns a SyncDoc command
\* and merge_and_notify is entered.
LoopTryRecv(p) ==
    /\ sync_thread[p].pc = "loop"
    /\ commandQ[p] /= <<>>
    /\ sync_thread' = [sync_thread EXCEPT ![p].pc = "merge"]
    /\ ChannelFrame
    /\ UNCHANGED <<document, quota, syncDoc, changeVer, commandQ, syncQ,
                   eventQ, conn, wire, processed>>

\* merge_and_notify gets the lock, merges and signals the change.
LoopMerge(p) ==
    /\ sync_thread[p].pc = "merge"
    /\ ~conn[p].guard
    /\ syncDoc' = [syncDoc EXCEPT
                      ![p] = merge_and_notify(@, Head(commandQ[p]))]
    /\ changeVer' = [changeVer EXCEPT ![p] = send_modify(@)]
    /\ commandQ' = [commandQ EXCEPT ![p] = Tail(@)]
    /\ sync_thread' = [sync_thread EXCEPT ![p].pc = "loop"]
    /\ ChannelFrame
    /\ UNCHANGED <<document, quota, syncQ, eventQ, conn, wire, processed>>

\* The arm of sync_rx.recv(), taken by the loop when it is in select!.
LoopForward(p) ==
    /\ sync_thread[p].pc = "loop"
    /\ ForwardRemote(p)

ChannelInit == InitShared(MaxInbound)

ChannelNext ==
    \E p \in {1} :
       \/ SendSyncDoc(p)
       \/ PeerSends(p)
       \/ TaskStart(p)
       \/ TaskChanged(p)
       \/ TaskRecv(p)
       \/ ConnNotify(p)
       \/ LoopTryRecv(p)
       \/ LoopMerge(p)
       \/ LoopForward(p)
       \/ PollEvent(p)

ChannelSpec == ChannelInit /\ [][ChannelNext]_vars

\* The runtime runs every task that can take a step, and the main thread
\* polls its events.
ChannelFairSpec ==
    /\ ChannelSpec
    /\ \A p \in {1} :
          /\ WF_vars(TaskStart(p))
          /\ WF_vars(TaskChanged(p))
          /\ WF_vars(TaskRecv(p))
          /\ WF_vars(ConnNotify(p))
          /\ WF_vars(LoopTryRecv(p))
          /\ WF_vars(LoopMerge(p))
          /\ WF_vars(LoopForward(p))
          /\ WF_vars(PollEvent(p))

\* The command loop waits for the document lock.
WaitsForLock(p) == sync_thread[p].pc = "merge" /\ conn[p].guard

\* The connection task waits for room in sync_tx.
WaitsForCapacity(p) ==
    conn[p].pc = "notify" /\ Len(syncQ[p]) = SyncChannelCap

\* While sync_tx has room the two waits end: the lock is given back.
LockReturned ==
    \A p \in {1} :
       (WaitsForLock(p) /\ Len(syncQ[p]) < SyncChannelCap)
          ~> ~WaitsForLock(p)

\* C38: the sync thread cannot deadlock: in every interleaving of the
\* command loop with the connection task, a task waiting for the document
\* lock or for channel capacity is eventually able to proceed.
C38_NoDeadlock ==
    \A p \in {1} :
       /\ WaitsForLock(p) ~> ~WaitsForLock(p)
       /\ WaitsForCapacity(p) ~> ~WaitsForCapacity(p)

(***************************************************************************)
(* The end of the exchange (SyncSpec).                                     *)
(***************************************************************************)
\* No frame is written in this step.
NoFrameSent == \A p \in Procs : Len(wire'[p]) <= Len(wire[p])

\* C39: sync quiescence: for two connected peers with no further local
\* changes, the exchange terminates: every flush ends (within MaxFlush
\* messages), and after finitely many frames neither side sends another
\* frame.
C39_ExchangeTerminates ==
    /\ [](\A p \in Procs : conn[p].pc /= "sending")
    /\ <>[][NoFrameSent]_vars

\* Both sides have received changes of the other, and the exchange is
\* over with the same document on both sides.
C39_Witness ==
    /\ Quiescent
    /\ drops = 0
    /\ syncDoc[1] = syncDoc[2]
    /\ \A p \in Procs : \E m \in processed[p] : m[4] /= {}
====
